---- MODULE Spec2Model ----
(***************************************************************************)
(* CS2 projection backend: the line movement tracker (line_tracker.py),    *)
(* the projection model (projection_model.py) and the prop aggregator      *)
(* (data_aggregator.py).                                                   *)
(*                                                                         *)
(* Python strings are sequences of one-character strings, so that          *)
(* concatenation, lower(), upper(), replace() and the substring test `in`  *)
(* are computed.  Python dicts are functions whose domain is the set of   *)
(* keys present; a dict whose iteration order the code relies on is the    *)
(* sequence of its entries in insertion order.  Decimal numbers are        *)
(* integers in a stated unit (hundredths for lines, tenths for rounded     *)
(* projection values) or exact fractions.                                  *)
(***************************************************************************)
EXTENDS Integers, Sequences, FiniteSets, TLC

VARIABLES
    line_history,   \* LineMovementTracker.line_history: player -> key -> entries
    current_lines,  \* LineMovementTracker.current_lines: key -> latest line
    recorded,       \* history variable: every entry ever appended, per player and key
    recorded_keys,  \* history variable: the (player, stat, platform) triples recorded
    clock,          \* datetime.now(): one tick per call that reads it
    call,           \* the last call made and what it returned
    player_form,    \* CS2ProjectionModel.player_form: player -> cached form factor
    agg,            \* CS2DataAggregator fallback state: __all_players, __match_counter
    pass,           \* history variable: the last aggregation pass, its inputs and rosters
    scraping_status, \* CS2DataAggregator.scraping_status: source -> success, error, last_attempt
    data_cache,     \* server.data_cache: the in-memory snapshot
    db,             \* the store behind server.db: the matches and projections collections
    tasks           \* the calls in progress: each one's position and local variables

vars == <<line_history, current_lines, recorded, recorded_keys, clock, call, player_form, agg, pass, scraping_status, data_cache, db, tasks>>

serverVars == <<data_cache, db>>

trackerVars == <<line_history, current_lines, recorded, recorded_keys, clock>>

(***************************************************************************)
(* Strings                                                                 *)
(***************************************************************************)
UpperChars == <<"A","B","C","D","E","F","G","H","I","J","K","L","M",
                "N","O","P","Q","R","S","T","U","V","W","X","Y","Z">>

LowerChars == <<"a","b","c","d","e","f","g","h","i","j","k","l","m",
                "n","o","p","q","r","s","t","u","v","w","x","y","z">>

IndexIn(c, alphabet) == CHOOSE i \in 1..Len(alphabet) : alphabet[i] = c

LowerChar(c) ==
    IF \E i \in 1..Len(UpperChars) : UpperChars[i] = c
    THEN LowerChars[IndexIn(c, UpperChars)] ELSE c

UpperChar(c) ==
    IF \E i \in 1..Len(LowerChars) : LowerChars[i] = c
    THEN UpperChars[IndexIn(c, LowerChars)] ELSE c

\* str.lower()
Lower(s) == [i \in 1..Len(s) |-> LowerChar(s[i])]

\* str.upper()
Upper(s) == [i \in 1..Len(s) |-> UpperChar(s[i])]

\* needle in hay  (Python substring test; the empty string is in every string)
Contains(needle, hay) ==
    \E i \in 0..(Len(hay) - Len(needle)) :
        SubSeq(hay, i + 1, i + Len(needle)) = needle

\* "_"
Underscore == <<"_">>

\* the empty Python dict, and the value None where a dict is expected
EmptyDict == <<>>

None == <<>>

\* None where a float is expected: an optional float is the set of its values
NoLine == {}

(***************************************************************************)
(* Decimal arithmetic                                                      *)
(***************************************************************************)
Abs(x) == IF x < 0 THEN -x ELSE x

\* floor(n / d) for d > 0 and any integer n
FloorDiv(n, d) == IF n >= 0 THEN n \div d ELSE -((-n + d - 1) \div d)

\* round(n / d): the integers nearest to n/d.  Python's round() rounds the
\* binary float correctly; at an exact decimal tie the float is a hair above
\* or below the tie (or exactly on it, rounding to even), so either neighbour
\* can be the result.
RoundDiv(n, d) ==
    LET f == FloorDiv(n, d)
        r == n - f * d
    IN  IF 2 * r < d THEN {f}
        ELSE IF 2 * r > d THEN {f + 1}
        ELSE {f, f + 1}

(***************************************************************************)
(* Line movement tracker (line_tracker.py).  Lines are in hundredths.      *)
(***************************************************************************)
\* the history cap of record_lines
MaxHistory == 50

\* significant_movement_threshold (kills) and _hs (other stats), in hundredths
significant_movement_threshold == 150

significant_movement_threshold_hs == 100

\* the direction band: movement > 0.5 is up, < -0.5 is down
DirectionBand == 50

\* 'prizepicks', the default of prop.get('platform', ...) and of get_line_movement
prizepicks == <<"p","r","i","z","e","p","i","c","k","s">>

\* 'underdog', the other platform
underdog == <<"u","n","d","e","r","d","o","g">>

\* 'kill', the substring that selects the kills threshold
kill == <<"k","i","l","l">>

\* f"{stat_type}_{platform}"
history_key(stat_type, platform) == stat_type \o Underscore \o platform

\* f"{player_name}_{stat_type}_{platform}"
current_key(player_name, stat_type, platform) ==
    player_name \o Underscore \o stat_type \o Underscore \o platform

\* prop.get(k): whether the value is present and truthy
Truthy(prop, k) ==
    /\ k \in DOMAIN prop
    /\ IF k = "line" THEN prop[k] # 0 ELSE prop[k] # <<>>

\* prop.get('platform', 'prizepicks')
PlatformOf(prop) == IF "platform" \in DOMAIN prop THEN prop.platform ELSE prizepicks

\* all([player_name, stat_type, line])
Recordable(prop) ==
    Truthy(prop, "player_name") /\ Truthy(prop, "stat_type") /\ Truthy(prop, "line")

\* history[-50:], taken when the history is longer than 50
TrimFront(history) ==
    IF Len(history) > MaxHistory THEN SubSeq(history, 1, MaxHistory) ELSE history

Trim(history) ==
    IF Len(history) > MaxHistory
    THEN SubSeq(history, Len(history) - MaxHistory + 1, Len(history))
    ELSE history

\* d[player][key], the value a defaultdict yields for a key not yet present
HistoryOf(lh, player_name, key) ==
    IF player_name \in DOMAIN lh /\ key \in DOMAIN lh[player_name]
    THEN lh[player_name][key] ELSE <<>>

\* d[player][key] = history
SetHistory(lh, player_name, key, history) ==
    LET stats == IF player_name \in DOMAIN lh THEN lh[player_name] ELSE EmptyDict
        stats2 == [k \in DOMAIN stats \cup {key} |->
                      IF k = key THEN history ELSE stats[k]]
    IN  [p \in DOMAIN lh \cup {player_name} |->
            IF p = player_name THEN stats2 ELSE lh[p]]

\* one iteration of the loop of record_lines, on the pair (line_history, current_lines)
RecordOneAlways(st, prop, timestamp) ==
    LET platform == PlatformOf(prop)
        key == history_key(prop.stat_type, platform)
        entry == [timestamp |-> timestamp, line |-> prop.line, platform |-> platform]
    IN  [lh |-> SetHistory(st.lh, prop.player_name, key,
                    Trim(Append(HistoryOf(st.lh, prop.player_name, key), entry))),
         cl |-> [k \in DOMAIN st.cl \cup
                        {current_key(prop.player_name, prop.stat_type, platform)} |->
                    IF k = current_key(prop.player_name, prop.stat_type, platform)
                    THEN entry ELSE st.cl[k]],
         log |-> SetHistory(st.log, prop.player_name, key,
                    Append(HistoryOf(st.log, prop.player_name, key), entry)),
         keys |-> st.keys \cup {<<prop.player_name, prop.stat_type, platform>>}]

RecordOne(st, prop, timestamp) ==
    IF ~Recordable(prop) THEN st ELSE RecordOneAlways(st, prop, timestamp)

RECURSIVE RecordAll(_, _, _)
RecordAll(st, props, timestamp) ==
    IF props = <<>> THEN st
    ELSE RecordAll(RecordOne(st, Head(props), timestamp), Tail(props), timestamp)

\* LineMovementTracker.record_lines(props)
record_lines(props) ==
    LET st == RecordAll([lh |-> line_history, cl |-> current_lines,
                         log |-> recorded, keys |-> recorded_keys], props, clock)
    IN  /\ line_history' = st.lh
        /\ current_lines' = st.cl
        /\ recorded' = st.log
        /\ recorded_keys' = st.keys
        /\ clock' = clock + 1
        /\ call' = [op |-> "record_lines", props |-> props]
        /\ UNCHANGED <<player_form, agg, pass, scraping_status, serverVars, tasks>>

\* the threshold chosen by 'kill' in stat_type.lower()
ThresholdCaseSensitive(stat_type) ==
    IF Contains(kill, stat_type)
    THEN significant_movement_threshold
    ELSE significant_movement_threshold_hs

ThresholdFor(stat_type) ==
    IF Contains(kill, Lower(stat_type))
    THEN significant_movement_threshold
    ELSE significant_movement_threshold_hs

DirectionLoose(movement) ==
    IF movement >= DirectionBand THEN "up"
    ELSE IF movement <= -DirectionBand THEN "down"
    ELSE "stable"

Direction(movement) ==
    IF movement > DirectionBand THEN "up"
    ELSE IF movement < -DirectionBand THEN "down"
    ELSE "stable"

\* the record returned for a history of one entry
NewMovementAsStable(history) ==
    [current_line |-> history[1].line,
     previous_line |-> NoLine,
     movement |-> 0,
     movement_direction |-> "stable",
     is_significant |-> FALSE,
     history_count |-> 1,
     first_seen |-> history[1].timestamp,
     last_updated |-> history[1].timestamp]

NewMovement(history) ==
    [current_line |-> history[1].line,
     previous_line |-> NoLine,
     movement |-> 0,
     movement_direction |-> "new",
     is_significant |-> FALSE,
     history_count |-> 1,
     first_seen |-> history[1].timestamp,
     last_updated |-> history[1].timestamp]

\* the record returned for a history of two or more entries; rounded is
\* round(movement, 1), in hundredths
MovementFromFirst(history, stat_type, rounded) ==
    LET current == history[Len(history)]
        previous == history[1]
        movement == current.line - previous.line
    IN  [current_line |-> current.line,
         previous_line |-> {previous.line},
         movement |-> rounded,
         movement_direction |-> Direction(movement),
         is_significant |-> Abs(movement) >= ThresholdFor(stat_type),
         history_count |-> Len(history),
         first_seen |-> history[1].timestamp,
         last_updated |-> current.timestamp]

Movement(history, stat_type, rounded) ==
    LET current == history[Len(history)]
        previous == history[Len(history) - 1]
        movement == current.line - previous.line
    IN  [current_line |-> current.line,
         previous_line |-> {previous.line},
         movement |-> rounded,
         movement_direction |-> Direction(movement),
         is_significant |-> Abs(movement) >= ThresholdFor(stat_type),
         history_count |-> Len(history),
         first_seen |-> history[1].timestamp,
         last_updated |-> current.timestamp]

\* current_line - previous_line of the two entries get_line_movement reads
RawMovement(history) == history[Len(history)].line - history[Len(history) - 1].line

\* round(movement, 1), in hundredths
Round1(movement) == {10 * t : t \in RoundDiv(movement, 10)}

\* what get_line_movement returns for a given history of the key
get_line_movement_of(history, stat_type) ==
    IF Len(history) < 2
    THEN IF Len(history) = 1 THEN {NewMovement(history)} ELSE {None}
    ELSE {Movement(history, stat_type, r) : r \in Round1(RawMovement(history))}

\* LineMovementTracker.get_line_movement: the values it can return
get_line_movement(player_name, stat_type, platform) ==
    LET key == history_key(stat_type, platform)
    IN  IF player_name \notin DOMAIN line_history THEN {None}
        ELSE IF key \notin DOMAIN line_history[player_name] THEN {None}
        ELSE get_line_movement_of(line_history[player_name][key], stat_type)

GetLineMovement(player_name, stat_type, platform) ==
    /\ \E r \in get_line_movement(player_name, stat_type, platform) :
          call' = [op |-> "get_line_movement", player_name |-> player_name,
                   stat_type |-> stat_type, platform |-> platform, ret |-> r]
    /\ UNCHANGED <<trackerVars, player_form, agg, pass, scraping_status, serverVars, tasks>>

\* stat_platform_key.rsplit('_', 1): the stat type and the platform read back
\* from a history key; a key without '_' is given the platform 'prizepicks'
RSplit(stat_platform_key) ==
    LET at == {i \in 1..Len(stat_platform_key) : stat_platform_key[i] = "_"}
        last == CHOOSE i \in at : \A j \in at : j <= i
    IN  IF at = {}
        THEN [stat_type |-> stat_platform_key, platform |-> prizepicks]
        ELSE [stat_type |-> SubSeq(stat_platform_key, 1, last - 1),
              platform |-> SubSeq(stat_platform_key, last + 1, Len(stat_platform_key))]

\* {'player_name': ..., 'stat_type': ..., 'platform': ..., **movement}
MovementEntry(player_name, stat_type, platform, movement) ==
    [player_name |-> player_name,
     stat_type |-> stat_type,
     platform |-> platform,
     current_line |-> movement.current_line,
     previous_line |-> movement.previous_line,
     movement |-> movement.movement,
     movement_direction |-> movement.movement_direction,
     is_significant |-> movement.is_significant,
     history_count |-> movement.history_count,
     first_seen |-> movement.first_seen,
     last_updated |-> movement.last_updated]

\* the (player, history key) pairs get_all_movements iterates over
HistoryPairs ==
    UNION {{<<p, k>> : k \in DOMAIN line_history[p]} : p \in DOMAIN line_history}

\* the key of the movements dict that a (player, history key) pair is stored under
MovementKeyOf(pair) ==
    current_key(pair[1], RSplit(pair[2]).stat_type, RSplit(pair[2]).platform)

\* the entries the loop of get_all_movements can store for a pair
EntriesOfPair(pair) ==
    LET parts == RSplit(pair[2])
    IN  {MovementEntry(pair[1], parts.stat_type, parts.platform, m) :
            m \in get_line_movement(pair[1], parts.stat_type, parts.platform) \ {None}}

\* the entries that can be stored under one key of the movements dict
EntriesOfKey(key) ==
    UNION {EntriesOfPair(pair) : pair \in {q \in HistoryPairs : MovementKeyOf(q) = key}}

\* the movements dicts over a set of keys
RECURSIVE MovementDicts(_)
MovementDicts(keys) ==
    IF keys = {} THEN {EmptyDict}
    ELSE LET key == CHOOSE k \in keys : TRUE
         IN  UNION {{[k \in DOMAIN d \cup {key} |-> IF k = key THEN e ELSE d[k]] :
                        e \in EntriesOfKey(key)} :
                    d \in MovementDicts(keys \ {key})}

\* LineMovementTracker.get_all_movements: the dicts it can return.  The loop
\* follows the insertion order of line_history, which decides the entry that
\* stays when two pairs share a key; every order is allowed here.
get_all_movements ==
    MovementDicts({MovementKeyOf(pair) :
                      pair \in {q \in HistoryPairs : EntriesOfPair(q) # {}}})

GetAllMovements ==
    /\ \E r \in get_all_movements : call' = [op |-> "get_all_movements", ret |-> r]
    /\ UNCHANGED <<trackerVars, player_form, agg, pass, scraping_status, serverVars, tasks>>

\* the movements kept by the filter of get_significant_movements
SignificantOf(movements) ==
    {movements[k] : k \in {j \in DOMAIN movements :
        movements[j].is_significant /\ movements[j].movement_direction # "new"}}

\* significant.sort(key=lambda x: abs(x['movement']), reverse=True): the lists
\* it can leave, equal magnitudes being in iteration order
SortedDescending(significant) ==
    {order \in [1..Cardinality(significant) -> significant] :
        /\ \A i, j \in DOMAIN order : i # j => order[i] # order[j]
        /\ \A i, j \in DOMAIN order :
              i < j => Abs(order[i].movement) >= Abs(order[j].movement)}

\* LineMovementTracker.get_significant_movements: the lists it can return
get_significant_movements ==
    UNION {SortedDescending(SignificantOf(movements)) : movements \in get_all_movements}

GetSignificantMovements ==
    /\ \E r \in get_significant_movements :
          call' = [op |-> "get_significant_movements", ret |-> r]
    /\ UNCHANGED <<trackerVars, player_form, agg, pass, scraping_status, serverVars, tasks>>

\* the entries of a history newer than the cutoff, or the mutation that also
\* keeps the entry at the cutoff
NewerOrAt(history, cutoff) ==
    LET Keep(entry) == entry.timestamp >= cutoff IN SelectSeq(history, Keep)

\* [entry for entry in history if entry['timestamp'].timestamp() > cutoff]
Newer(history, cutoff) ==
    LET Keep(entry) == entry.timestamp > cutoff IN SelectSeq(history, Keep)

\* line_history after the loops of clear_old_history: every history filtered,
\* then the empty keys and the players left without keys deleted
Pruned(lh, cutoff) ==
    LET kept == [p \in DOMAIN lh |->
                    [k \in {j \in DOMAIN lh[p] : Newer(lh[p][j], cutoff) # <<>>} |->
                        Newer(lh[p][k], cutoff)]]
    IN  [p \in {q \in DOMAIN lh : DOMAIN kept[q] # {}} |-> kept[p]]

\* LineMovementTracker.clear_old_history(hours); the clock counts hours
clear_old_history(hours) ==
    /\ line_history' = Pruned(line_history, clock - hours)
    /\ clock' = clock + 1
    /\ call' = [op |-> "clear_old_history", hours |-> hours, cutoff |-> clock - hours,
                before |-> line_history]
    /\ UNCHANGED <<current_lines, recorded, recorded_keys, player_form, agg, pass, scraping_status, serverVars, tasks>>

(***************************************************************************)
(* Projection model (projection_model.py).  A number is an exact fraction  *)
(* [n, d] with d > 0; values rounded to one decimal are integers in tenths.*)
(***************************************************************************)
RECURSIVE GCD(_, _)
GCD(a, b) == IF b = 0 THEN a ELSE GCD(b, a % b)

\* the fraction n/d in lowest terms, d > 0
Frac(n, d) ==
    LET g == GCD(Abs(n), Abs(d))
        sgn == IF d < 0 THEN -1 ELSE 1
    IN  [n |-> sgn * (n \div g), d |-> sgn * (d \div g)]

\* a * b, cancelling across before multiplying
RMul(a, b) ==
    LET x == Frac(a.n, b.d)
        y == Frac(b.n, a.d)
    IN  [n |-> x.n * y.n, d |-> x.d * y.d]

RDiv(a, b) == RMul(a, Frac(b.d, b.n))

RSub(a, b) == Frac(a.n * b.d - b.n * a.d, a.d * b.d)

RAdd(a, b) == Frac(a.n * b.d + b.n * a.d, a.d * b.d)

RAbs(a) == [n |-> Abs(a.n), d |-> a.d]

RLess(a, b) == a.n * b.d < b.n * a.d

RGeq(a, b) == ~RLess(a, b)

RMax(a, b) == IF RLess(a, b) THEN b ELSE a

RMin(a, b) == IF RLess(b, a) THEN b ELSE a

\* round(x, 1), in tenths: the whole part first, so that 10 * x.n need not be formed
RoundTenths(x) ==
    LET q == FloorDiv(x.n, x.d)
        r == x.n - q * x.d
    IN  {10 * q + t : t \in RoundDiv(10 * r, x.d)}

\* a value in tenths, as a fraction
Tenths(t) == Frac(t, 10)

\* a value in hundredths, as a fraction
Hundredths(h) == Frac(h, 100)

\* the model parameters set in __init__
confidence_base == 75

value_threshold_kills == 3

value_threshold_headshots == 2

\* the bounds of max(60.0, min(95.0, confidence))
ConfidenceFloor == 60

ConfidenceCeiling == 95

kills == <<"k","i","l","l","s">>

headshots == <<"h","e","a","d","s","h","o","t","s">>

DEFAULT == <<"D","E","F","A","U","L","T">>

\* _initialize_team_ratings: the table in insertion order, ratings in hundredths
team_ratings ==
    << [team |-> <<"N","a","v","i">>, rating |-> 115],
       [team |-> <<"N","A","T","U","S"," ","V","I","N","C","E","R","E">>, rating |-> 115],
       [team |-> <<"F","a","Z","e">>, rating |-> 112],
       [team |-> <<"F","A","Z","E"," ","C","L","A","N">>, rating |-> 112],
       [team |-> <<"V","i","t","a","l","i","t","y">>, rating |-> 114],
       [team |-> <<"T","E","A","M"," ","V","I","T","A","L","I","T","Y">>, rating |-> 114],
       [team |-> <<"G","2">>, rating |-> 110],
       [team |-> <<"G","2"," ","E","S","P","O","R","T","S">>, rating |-> 110],
       [team |-> <<"M","O","U","Z">>, rating |-> 108],
       [team |-> <<"L","i","q","u","i","d">>, rating |-> 105],
       [team |-> <<"T","E","A","M"," ","L","I","Q","U","I","D">>, rating |-> 105],
       [team |-> <<"H","e","r","o","i","c">>, rating |-> 103],
       [team |-> <<"A","s","t","r","a","l","i","s">>, rating |-> 102],
       [team |-> <<"E","N","C","E">>, rating |-> 100],
       [team |-> DEFAULT, rating |-> 100] >>

\* known_team.upper() of every key of the table
known_team_upper == [i \in 1..Len(team_ratings) |-> Upper(team_ratings[i].team)]

\* CS2ProjectionModel.get_team_rating
get_team_rating(team_name) ==
    LET exact == {i \in 1..Len(team_ratings) : team_ratings[i].team = team_name}
        team_upper == Upper(team_name)
        partial == {i \in 1..Len(team_ratings) :
                       \/ Contains(known_team_upper[i], team_upper)
                       \/ Contains(team_upper, known_team_upper[i])}
        first(S) == CHOOSE i \in S : \A j \in S : i <= j
    IN  IF exact # {} THEN team_ratings[first(exact)].rating
        ELSE IF partial # {} THEN team_ratings[first(partial)].rating
        ELSE team_ratings[first({i \in 1..Len(team_ratings) :
                                    team_ratings[i].team = DEFAULT})].rating

\* CS2ProjectionModel.calculate_opponent_adjustment:
\* 1.0 + (player_rating / opponent_rating - 1.0) * 0.25
calculate_opponent_adjustment(player_team, opponent_team) ==
    LET relative_strength == Frac(get_team_rating(player_team),
                                  get_team_rating(opponent_team))
    IN  RAdd(Frac(1, 1), RMul(RSub(relative_strength, Frac(1, 1)), Frac(1, 4)))

\* max(0.85, min(1.15, form)), in hundredths
ClampForm(form) == IF form < 85 THEN 85 ELSE IF form > 115 THEN 115 ELSE form

\* CS2StatsFetcher.fetch_player_recent_form: None when real data is disabled;
\* otherwise the form the provider holds or obtains for the player, None when
\* it obtains none.  In hundredths.
fetch_player_recent_form(fetcher, player_name) ==
    IF ~fetcher.enable_real_data THEN {}
    ELSE IF player_name \in DOMAIN fetcher.player_cache
    THEN {fetcher.player_cache[player_name]}
    ELSE {}

\* CS2ProjectionModel.calculate_player_form, gauss being the sample drawn
\* when the player is not cached: the form returned, in hundredths.
\* self.stats_fetcher is stored by __init__ and read nowhere.
calculate_player_form(cache, player_name, gauss) ==
    IF player_name \in DOMAIN cache THEN cache[player_name] ELSE ClampForm(gauss)

\* self.player_form after calculate_player_form
FormCacheAfter(cache, player_name, gauss) ==
    IF player_name \in DOMAIN cache THEN cache
    ELSE [p \in DOMAIN cache \cup {player_name} |->
             IF p = player_name THEN ClampForm(gauss) ELSE cache[p]]

RECURSIVE SumLines(_)
SumLines(dfs_lines) ==
    IF dfs_lines = <<>> THEN 0 ELSE Head(dfs_lines).line + SumLines(Tail(dfs_lines))

\* sum([line['line'] for line in dfs_lines]) / len(dfs_lines), lines in hundredths
Baseline(dfs_lines) == Frac(SumLines(dfs_lines), 100 * Len(dfs_lines))

\* the value threshold of a stat type
ThresholdOf(stat_type) ==
    IF stat_type = kills THEN Frac(value_threshold_kills, 1)
    ELSE Frac(value_threshold_headshots, 1)

\* max(60.0, min(95.0, confidence))
ClampConfidenceLow(confidence) == RMin(Frac(ConfidenceCeiling, 1), confidence)

ClampConfidence(confidence) ==
    RMax(Frac(ConfidenceFloor, 1), RMin(Frac(ConfidenceCeiling, 1), confidence))

\* abs(difference) >= threshold
ValueOpportunity(difference, threshold) == RGeq(RAbs(difference), threshold)

\* CS2ProjectionModel.generate_projection for non-empty dfs_lines, given the
\* form multiplier and the variance sample (hundredths): the dicts it can return
ProjectionData(team, opponent_team, stat_type, dfs_lines, form_multiplier, variance) ==
    LET baseline == Baseline(dfs_lines)
        opponent_adjustment == calculate_opponent_adjustment(team, opponent_team)
        exact == RMul(RMul(RMul(baseline, Hundredths(form_multiplier)),
                           opponent_adjustment), Hundredths(100 + variance))
        threshold == ThresholdOf(stat_type)
    IN  UNION { LET diff_from_baseline == RAbs(RSub(Tenths(projection), baseline))
                    confidence == ClampConfidence(
                        RSub(Frac(confidence_base, 1),
                             RMul(RDiv(diff_from_baseline, threshold), Frac(10, 1))))
                    difference == RSub(Tenths(projection), baseline)
                IN  { [projected_value |-> projection,
                       confidence |-> c,
                       difference |-> d,
                       value_opportunity |-> ValueOpportunity(difference, threshold),
                       baseline |-> baseline,
                       form_factor |-> form_multiplier,
                       opponent_factor |-> opponent_adjustment]
                      : c \in RoundTenths(confidence), d \in RoundTenths(difference) }
              : projection \in RoundTenths(exact) }

\* CS2ProjectionModel.generate_projection: the values it can return
generate_projection(cache, player_name, team, opponent_team, stat_type, dfs_lines, gauss, variance) ==
    IF dfs_lines = <<>> THEN {None}
    ELSE ProjectionData(team, opponent_team, stat_type, dfs_lines,
                        calculate_player_form(cache, player_name, gauss), variance)

\* self.player_form after generate_projection
FormCacheAfterProjection(cache, player_name, dfs_lines, gauss) ==
    IF dfs_lines = <<>> THEN cache ELSE FormCacheAfter(cache, player_name, gauss)

GenerateProjection(player_name, team, opponent_team, stat_type, dfs_lines, gauss, variance) ==
    /\ \E r \in generate_projection(player_form, player_name, team, opponent_team,
                                    stat_type, dfs_lines, gauss, variance) :
          call' = [op |-> "generate_projection", player_name |-> player_name,
                   team |-> team, opponent_team |-> opponent_team,
                   stat_type |-> stat_type, dfs_lines |-> dfs_lines, ret |-> r]
    /\ player_form' = FormCacheAfterProjection(player_form, player_name, dfs_lines, gauss)
    /\ UNCHANGED <<trackerVars, agg, pass, scraping_status, serverVars, tasks>>

\* prop.get('dfs_lines', [])
DfsLinesOf(prop) == IF "dfs_lines" \in DOMAIN prop THEN prop.dfs_lines ELSE <<>>

\* the enhanced projection generate_match_projections appends for a prop
EnhancedProjection(match_id, prop, projection_data) ==
    [match_id |-> match_id,
     player_name |-> prop.player_name,
     team |-> prop.team,
     stat_type |-> prop.stat_type,
     projected_value |-> projection_data.projected_value,
     confidence |-> projection_data.confidence,
     dfs_lines |-> DfsLinesOf(prop),
     value_opportunity |-> projection_data.value_opportunity,
     difference |-> projection_data.difference]

\* if projection_data: projections.append(enhanced_proj), or the mutation
\* that puts the new projection in front
PrependProjection(projections, match_id, prop, projection_data) ==
    IF projection_data = None THEN projections
    ELSE <<EnhancedProjection(match_id, prop, projection_data)>> \o projections

AppendProjection(projections, match_id, prop, projection_data) ==
    IF projection_data = None THEN projections
    ELSE Append(projections, EnhancedProjection(match_id, prop, projection_data))

\* CS2ProjectionModel.generate_match_projections: the loop over player_props,
\* draws[i] being the samples of the i-th prop.  The outcomes are pairs of
\* the player_form cache and the projections list.
RECURSIVE MatchProjections(_, _, _, _, _, _)
MatchProjections(out, match_id, team1, team2, player_props, draws) ==
    IF player_props = <<>> THEN {out}
    ELSE LET prop == Head(player_props)
             opponent_team == IF prop.team = team1 THEN team2 ELSE team1
             rets == generate_projection(out.cache, prop.player_name, prop.team,
                         opponent_team, prop.stat_type, DfsLinesOf(prop),
                         Head(draws).gauss, Head(draws).variance)
             cache2 == FormCacheAfterProjection(out.cache, prop.player_name,
                         DfsLinesOf(prop), Head(draws).gauss)
         IN  UNION { MatchProjections(
                        [cache |-> cache2,
                         projections |-> AppendProjection(out.projections, match_id, prop, r)],
                        match_id, team1, team2, Tail(player_props), Tail(draws))
                     : r \in rets }

generate_match_projections(cache, match_id, team1, team2, player_props, draws) ==
    MatchProjections([cache |-> cache, projections |-> <<>>],
                     match_id, team1, team2, player_props, draws)

GenerateMatchProjections(match_id, team1, team2, player_props, draws) ==
    /\ \E out \in generate_match_projections(player_form, match_id, team1, team2,
                                             player_props, draws) :
          /\ call' = [op |-> "generate_match_projections", match_id |-> match_id,
                      team1 |-> team1, team2 |-> team2,
                      player_props |-> player_props, ret |-> out.projections]
          /\ player_form' = out.cache
    /\ UNCHANGED <<trackerVars, agg, pass, scraping_status, serverVars, tasks>>

(***************************************************************************)
(* Prop aggregator (data_aggregator.py)                                    *)
(***************************************************************************)
Max(a, b) == IF a > b THEN a ELSE b

Min(a, b) == IF a < b THEN a ELSE b

\* s.replace(c, '')
Remove(s, c) == LET Keep(x) == x # c IN SelectSeq(s, Keep)

\* normalize_team_name: name.lower().replace(' ', '').replace('-', '').replace('_', '')
normalize_team_name(name) == Remove(Remove(Remove(Lower(name), " "), "-"), "_")

\* prop.get('team', '')
TeamOf(prop) == IF "team" \in DOMAIN prop THEN prop.team ELSE <<>>

\* prop.get('game_id', '')
GameIdOf(prop) == IF "game_id" \in DOMAIN prop THEN prop.game_id ELSE <<>>

\* the position of a player in player_props (0 when absent)
PlayerIndex(player_props, player) ==
    IF \E i \in 1..Len(player_props) : player_props[i].player = player
    THEN CHOOSE i \in 1..Len(player_props) : player_props[i].player = player
    ELSE 0

\* the position of a stat type in a player's stats (0 when absent)
StatIndex(stats, stat_type) ==
    IF \E j \in 1..Len(stats) : stats[j].stat_type = stat_type
    THEN CHOOSE j \in 1..Len(stats) : stats[j].stat_type = stat_type
    ELSE 0

\* one iteration of the grouping loops: the player's entry and the stat's
\* entry are created when absent, then the platform's line is overwritten
AddProp(player_props, prop, platform, game_id) ==
    LET pp1 == IF PlayerIndex(player_props, prop.player_name) = 0
               THEN Append(player_props,
                        [player |-> prop.player_name, team |-> TeamOf(prop),
                         game_id |-> game_id, stats |-> <<>>])
               ELSE player_props
        i == PlayerIndex(pp1, prop.player_name)
        stats1 == IF StatIndex(pp1[i].stats, prop.stat_type) = 0
                  THEN Append(pp1[i].stats,
                           [stat_type |-> prop.stat_type,
                            prizepicks |-> NoLine, underdog |-> NoLine])
                  ELSE pp1[i].stats
        j == StatIndex(stats1, prop.stat_type)
        stats2 == IF platform = "prizepicks"
                  THEN [stats1 EXCEPT ![j].prizepicks = {prop.line}]
                  ELSE [stats1 EXCEPT ![j].underdog = {prop.line}]
    IN  [pp1 EXCEPT ![i].stats = stats2]

\* the grouping loop over props[first..last] of one platform, run as its
\* first half and then, on the grouping that half has built, its second half
RECURSIVE AddProps(_, _, _, _, _)
AddProps(player_props, props, platform, first, last) ==
    IF first > last THEN player_props
    ELSE IF first = last
    THEN AddProp(player_props, props[first], platform,
                 IF platform = "prizepicks" THEN GameIdOf(props[first]) ELSE <<>>)
    ELSE LET mid == (first + last) \div 2
             half == AddProps(player_props, props, platform, first, mid)
         IN  IF Len(half) = 0 THEN half
             ELSE AddProps(half, props, platform, mid + 1, last)

\* player_props of _find_matching_props: the props grouped by player, in
\* insertion order, PrizePicks first
GroupProps(pp_props, ud_props) ==
    AddProps(AddProps(<<>>, pp_props, "prizepicks", 1, Len(pp_props)),
             ud_props, "underdog", 1, Len(ud_props))

\* list(player_props.keys())
PlayerKeys(player_props) == [i \in 1..Len(player_props) |-> player_props[i].player]

\* a in b or b in a
EitherContains(a, b) == Contains(a, b) \/ Contains(b, a)

\* the players whose non-empty team matches team1 of the match, team2 left
\* untested
TeamMatchedFirstTeam(player_props, team1_norm, team2_norm) ==
    LET Matches(player_data) ==
            /\ player_data.team # <<>>
            /\ EitherContains(normalize_team_name(player_data.team), team1_norm)
    IN  PlayerKeys(SelectSeq(player_props, Matches))

\* the players whose non-empty team matches team1 or team2 of the match
TeamMatched(player_props, team1_norm, team2_norm) ==
    LET Matches(player_data) ==
            /\ player_data.team # <<>>
            /\ \/ EitherContains(normalize_team_name(player_data.team), team1_norm)
               \/ EitherContains(normalize_team_name(player_data.team), team2_norm)
    IN  PlayerKeys(SelectSeq(player_props, Matches))

\* hasattr(self, '_all_players')
HasFallbackState(a) == a # EmptyDict

\* the aggregator's fallback state once the hasattr test has run:
\* self._all_players and self._match_counter
FallbackState(a, player_props) ==
    IF HasFallbackState(a) THEN a
    ELSE [_all_players |-> PlayerKeys(player_props), _match_counter |-> 0]

\* max(10, total_players // 10) if total_players > 0 else 10
players_per_match(total_players) ==
    IF total_players > 0 THEN Max(10, total_players \div 10) ELSE 10

\* lst[start_idx:end_idx] for 0 <= start_idx <= end_idx
Slice(lst, start_idx, end_idx) == SubSeq(lst, start_idx + 1, Min(end_idx, Len(lst)))

\* self._all_players[start_idx:end_idx] of the fallback branch
FallbackChunk(a) ==
    LET size == players_per_match(Len(a._all_players))
        start_idx == a._match_counter * size
    IN  Slice(a._all_players, start_idx, start_idx + size)

\* matched_players.index(player), zero-based
IndexOf(matched_players, player) ==
    (CHOOSE i \in 1..Len(matched_players) :
        /\ matched_players[i] = player
        /\ \A j \in 1..(i - 1) : matched_players[j] # player) - 1

\* the match team given to a rostered player
AssignedTeam(matched_players, player, prop_team, match) ==
    LET prop_team_norm == normalize_team_name(prop_team)
    IN  IF EitherContains(prop_team_norm, normalize_team_name(match.team1))
        THEN match.team1
        ELSE IF EitherContains(prop_team_norm, normalize_team_name(match.team2))
        THEN match.team2
        ELSE IF 2 * IndexOf(matched_players, player) < Len(matched_players)
        THEN match.team1 ELSE match.team2

\* the truth value of a line: None and 0.0 are false
LineGiven(line) == line # NoLine /\ line # {0}

\* if pp_line or ud_line
HasLinePrizepicksOnly(lines) == LineGiven(lines.prizepicks)

HasLine(lines) == LineGiven(lines.prizepicks) \/ LineGiven(lines.underdog)

\* the value of an optional line that is given
LineValue(line) == CHOOSE v \in line : TRUE

\* the DFS lines list of a stat, or the mutation that stops at the first
\* platform that has a line
DfsLinesFirstPlatform(stat_type, lines) ==
    IF LineGiven(lines.prizepicks)
    THEN <<[platform |-> prizepicks, stat_type |-> stat_type,
            line |-> LineValue(lines.prizepicks), maps |-> "Map1+Map2"]>>
    ELSE IF LineGiven(lines.underdog)
    THEN <<[platform |-> underdog, stat_type |-> stat_type,
            line |-> LineValue(lines.underdog), maps |-> "Map1+Map2"]>>
    ELSE <<>>

DfsLines(stat_type, lines) ==
    (IF LineGiven(lines.prizepicks)
     THEN <<[platform |-> prizepicks, stat_type |-> stat_type,
             line |-> LineValue(lines.prizepicks), maps |-> "Map1+Map2"]>>
     ELSE <<>>)
    \o (IF LineGiven(lines.underdog)
        THEN <<[platform |-> underdog, stat_type |-> stat_type,
                line |-> LineValue(lines.underdog), maps |-> "Map1+Map2"]>>
        ELSE <<>>)

\* the raw props of one rostered player: one per stat that has a line
RECURSIVE StatProps(_, _, _, _)
StatProps(match_id, player, team, stats) ==
    IF stats = <<>> THEN <<>>
    ELSE (IF HasLine(Head(stats))
          THEN <<[match_id |-> match_id, player_name |-> player, team |-> team,
                  stat_type |-> Head(stats).stat_type,
                  dfs_lines |-> DfsLines(Head(stats).stat_type, Head(stats))]>>
          ELSE <<>>)
         \o StatProps(match_id, player, team, Tail(stats))

\* the loop over matched_players; rest is the part of the roster still to do
RECURSIVE RosterProps(_, _, _, _, _)
RosterProps(match_id, match, player_props, matched_players, rest) ==
    IF rest = <<>> THEN <<>>
    ELSE LET player == Head(rest)
             i == PlayerIndex(player_props, player)
         IN  (IF i = 0 THEN <<>>
              ELSE StatProps(match_id, player,
                       AssignedTeam(matched_players, player, player_props[i].team, match),
                       player_props[i].stats))
             \o RosterProps(match_id, match, player_props, matched_players, Tail(rest))

\* the fallback state after the roster is chosen, with a fallback branch
\* that leaves the counter alone
StateAfterRosterUnadvanced(a, a1, fallback) ==
    IF fallback THEN a1 ELSE a

\* the fallback state after the roster is chosen: self._match_counter += 1
\* in the fallback branch, nothing in the other
StateAfterRoster(a, a1, fallback) ==
    IF fallback THEN [a1 EXCEPT !._match_counter = @ + 1] ELSE a

\* CS2DataAggregator._find_matching_props on the fallback state a: the state
\* afterwards, the roster (matched_players) and the raw props returned
_find_matching_props(a, match_id, match, pp_props, ud_props) ==
    LET player_props == GroupProps(pp_props, ud_props)
        by_team == TeamMatched(player_props, normalize_team_name(match.team1),
                               normalize_team_name(match.team2))
        a1 == FallbackState(a, player_props)
        fallback == by_team = <<>>
        matched_players == IF fallback THEN FallbackChunk(a1) ELSE by_team
    IN  [agg |-> StateAfterRoster(a, a1, fallback),
         fallback |-> fallback,
         matched_players |-> matched_players,
         projections |-> RosterProps(match_id, match, player_props,
                                     matched_players, matched_players)]

\* the match object _combine_data builds (tournament and start time left out)
MatchObject(match_id, hltv_match) ==
    [id |-> match_id, team1 |-> hltv_match.team1, team2 |-> hltv_match.team2,
     map1 |-> "TBD", map2 |-> "TBD", status |-> "upcoming"]

\* the loop of _combine_data over hltv_matches: out holds the aggregator's
\* fallback state, the player_form cache, the matches and projections built
\* and what _find_matching_props returned per match; match ids are fresh,
\* next_id being the first one unused; draw is the sample every prop draws.
\* The result is the set of outcomes.
RECURSIVE CombineLoop(_, _, _, _, _, _)
CombineLoop(out, hltv_matches, pp_props, ud_props, next_id, draw) ==
    IF hltv_matches = <<>> THEN {out}
    ELSE LET hltv_match == Head(hltv_matches)
             match == MatchObject(next_id, hltv_match)
             found == _find_matching_props(out.agg, next_id, hltv_match,
                                           pp_props, ud_props)
             raw_props == found.projections
             results == generate_match_projections(out.cache, next_id,
                            match.team1, match.team2, raw_props,
                            [i \in 1..Len(raw_props) |-> draw])
         IN  UNION { CombineLoop(
                        [agg |-> found.agg,
                         cache |-> r.cache,
                         matches |-> Append(out.matches, match),
                         all_projections |-> out.all_projections \o r.projections,
                         found |-> Append(out.found,
                                     [match_id |-> next_id,
                                      fallback |-> found.fallback,
                                      matched_players |-> found.matched_players,
                                      raw_props |-> raw_props])],
                        Tail(hltv_matches), pp_props, ud_props, next_id + 1, draw)
                     : r \in results }

\* CS2DataAggregator._combine_data
_combine_data(hltv_matches, pp_props, ud_props, draw) ==
    \E out \in CombineLoop([agg |-> agg, cache |-> player_form, matches |-> <<>>,
                            all_projections |-> <<>>, found |-> <<>>],
                           hltv_matches, pp_props, ud_props,
                           pass.next_id, draw) :
        /\ agg' = out.agg
        /\ player_form' = out.cache
        /\ pass' = [n |-> pass.n + 1,
                    next_id |-> pass.next_id + Len(hltv_matches),
                    hltv_matches |-> hltv_matches,
                    pp_props |-> pp_props,
                    ud_props |-> ud_props,
                    found |-> out.found]
        /\ call' = [op |-> "_combine_data",
                    ret |-> <<out.matches, out.all_projections>>]
        /\ UNCHANGED <<trackerVars, scraping_status, serverVars, tasks>>

\* the three sources of fetch_all_data
Sources == {"hltv", "prizepicks", "underdog"}

\* self.scraping_status as __init__ leaves it; None is the empty set for
\* the optional error message and the optional time of the last attempt
InitialStatus ==
    [source \in Sources |-> [success |-> FALSE, error |-> {}, last_attempt |-> {}]]

\* the result of a source's fetch: a list returned, or an exception raised
Returned(value) == [raises |-> FALSE, value |-> value]

Raised(error) == [raises |-> TRUE, error |-> error]

\* the list a fetch contributes: the except branch assigns []
Fetched(result) == IF result.raises THEN <<>> ELSE result.value

\* the error recorded for a fetch that returned nothing
NoDataError ==
    [hltv |-> "No matches returned (possible 403 or rate limit)",
     prizepicks |-> "No props returned (API returned 403 - anti-scraping protection)",
     underdog |-> "No props returned (API unavailable)"]

\* the scraping_status entry of a source after its try block, or the
\* mutation whose except branch records nothing
StatusAfterFetchUnrecorded(status, source, result, now) ==
    IF result.raises
    THEN [status[source] EXCEPT !.last_attempt = {now}]
    ELSE IF result.value # <<>>
    THEN [success |-> TRUE, error |-> {}, last_attempt |-> {now}]
    ELSE [success |-> FALSE, error |-> {NoDataError[source]}, last_attempt |-> {now}]

StatusAfterFetch(status, source, result, now) ==
    IF result.raises
    THEN [success |-> FALSE, error |-> {result.error}, last_attempt |-> {now}]
    ELSE IF result.value # <<>>
    THEN [success |-> TRUE, error |-> {}, last_attempt |-> {now}]
    ELSE [success |-> FALSE, error |-> {NoDataError[source]}, last_attempt |-> {now}]

\* c.isalnum() for the characters of team names
IsAlnum(c) ==
    \/ \E i \in 1..Len(LowerChars) : LowerChars[i] = c
    \/ \E i \in 1..Len(UpperChars) : UpperChars[i] = c
    \/ c \in {"0","1","2","3","4","5","6","7","8","9"}

\* generate_player_names: five distinct names.  The names are random; the
\* ones of style 4, f"{team_abbr}{i+1}", are the ones taken here.
generate_player_names(team_name) ==
    LET team_abbr == Lower(SelectSeq(SubSeq(team_name, 1, Min(3, Len(team_name))), IsAlnum))
        number == <<"1","2","3","4","5">>
    IN  [i \in 1..5 |-> Append(team_abbr, number[i])]

\* the match object _combine_data_with_mock_props builds
MockMatchObject(match_id, hltv_match) ==
    [id |-> match_id, team1 |-> hltv_match.team1, team2 |-> hltv_match.team2,
     map1 |-> "Mirage", map2 |-> "Dust2", status |-> "upcoming"]

\* the mock projection of a player and stat; mock holds the rounded random
\* draws: the projected value, the confidence and the difference in tenths,
\* the line in hundredths
MockProjection(match_id, player_name, team, stat_type, mock) ==
    [match_id |-> match_id,
     player_name |-> player_name,
     team |-> team,
     stat_type |-> stat_type,
     projected_value |-> mock.projected_value,
     confidence |-> mock.confidence,
     dfs_lines |-> <<[platform |-> prizepicks, stat_type |-> stat_type,
                      line |-> mock.line, maps |-> "Map1+Map2"]>>,
     value_opportunity |-> FALSE,
     difference |-> mock.difference]

\* the mock projections of a match: both teams, five players each, kills
\* and headshots for every player
MockMatchProjections(match_id, hltv_match, mock) ==
    [k \in 1..20 |->
        LET team == IF k <= 10 THEN hltv_match.team1 ELSE hltv_match.team2
            player_name == generate_player_names(team)[((k - 1) % 10) \div 2 + 1]
        IN  IF k % 2 = 1
            THEN MockProjection(match_id, player_name, team, kills, mock.kills)
            ELSE MockProjection(match_id, player_name, team, headshots, mock.headshots)]

\* CS2DataAggregator._combine_data_with_mock_props: the matches and the
\* projections of the first ten matches
RECURSIVE MockLoop(_, _, _, _)
MockLoop(out, hltv_matches, next_id, mock) ==
    IF hltv_matches = <<>> THEN out
    ELSE MockLoop([matches |-> Append(out.matches,
                                  MockMatchObject(next_id, Head(hltv_matches))),
                   all_projections |-> out.all_projections
                        \o MockMatchProjections(next_id, Head(hltv_matches), mock)],
                  Tail(hltv_matches), next_id + 1, mock)

_combine_data_with_mock_props(hltv_matches, next_id, mock) ==
    MockLoop([matches |-> <<>>, all_projections |-> <<>>],
             SubSeq(hltv_matches, 1, Min(10, Len(hltv_matches))), next_id, mock)

\* return [], [] of the branch without data, or the mutation that returns
\* a sample match in its place
SampleDataResult ==
    [matches |-> <<MockMatchObject(0, [team1 |-> <<"G","2">>, team2 |-> <<"M","O","U","Z">>])>>,
     projections |-> <<>>]

NoDataResult == [matches |-> <<>>, projections |-> <<>>]

\* the branch fetch_all_data takes on the lists fetched
BranchOf(hltv_matches, prizepicks_props, underdog_props) ==
    IF hltv_matches # <<>>
    THEN IF prizepicks_props # <<>> \/ underdog_props # <<>> THEN "combine" ELSE "mock"
    ELSE IF prizepicks_props = <<>> THEN "empty" ELSE "combine"

\* CS2DataAggregator.fetch_all_data on the results of the three fetches:
\* the aggregator's state afterwards and the pair returned.  draw is the
\* sample every prop draws in the projection model, mock the draws of the
\* mock branch.
fetch_all_data_of(hltv, pp, ud, draw, mock) ==
    LET hltv_matches == Fetched(hltv)
        prizepicks_props == Fetched(pp)
        underdog_props == Fetched(ud)
        status == [source \in Sources |->
                      StatusAfterFetch(scraping_status, source,
                          IF source = "hltv" THEN hltv
                          ELSE IF source = "prizepicks" THEN pp ELSE ud,
                          clock)]
        branch == BranchOf(hltv_matches, prizepicks_props, underdog_props)
        fetched == [hltv |-> hltv, prizepicks |-> pp, underdog |-> ud]
    IN  IF branch = "combine"
        THEN { [agg |-> out.agg, cache |-> out.cache, scraping_status |-> status,
                branch |-> branch, fetched |-> fetched,
                pass |-> [n |-> pass.n + 1,
                          next_id |-> pass.next_id + Len(hltv_matches),
                          hltv_matches |-> hltv_matches,
                          pp_props |-> prizepicks_props,
                          ud_props |-> underdog_props,
                          found |-> out.found],
                matches |-> out.matches, projections |-> out.all_projections] :
               out \in CombineLoop([agg |-> agg, cache |-> player_form, matches |-> <<>>,
                                    all_projections |-> <<>>, found |-> <<>>],
                                   hltv_matches, prizepicks_props, underdog_props,
                                   pass.next_id, draw) }
        ELSE IF branch = "mock"
        THEN LET out == _combine_data_with_mock_props(hltv_matches, pass.next_id, mock)
             IN  { [agg |-> agg, cache |-> player_form, scraping_status |-> status,
                    branch |-> branch, fetched |-> fetched,
                    pass |-> [n |-> pass.n + 1,
                              next_id |-> pass.next_id + Len(out.matches),
                              hltv_matches |-> hltv_matches,
                              pp_props |-> <<>>, ud_props |-> <<>>, found |-> <<>>],
                    matches |-> out.matches, projections |-> out.all_projections] }
        ELSE { [agg |-> agg, cache |-> player_form, scraping_status |-> status,
                branch |-> branch, fetched |-> fetched,
                pass |-> [n |-> pass.n + 1, next_id |-> pass.next_id,
                          hltv_matches |-> <<>>, pp_props |-> <<>>,
                          ud_props |-> underdog_props, found |-> <<>>],
                matches |-> NoDataResult.matches,
                projections |-> NoDataResult.projections] }

fetch_all_data(hltv, pp, ud, draw, mock) ==
    \E out \in fetch_all_data_of(hltv, pp, ud, draw, mock) :
        /\ agg' = out.agg
        /\ player_form' = out.cache
        /\ scraping_status' = out.scraping_status
        /\ pass' = out.pass
        /\ clock' = clock + 1
        /\ call' = [op |-> "fetch_all_data", fetched |-> out.fetched,
                    branch |-> out.branch, before |-> scraping_status,
                    ret |-> <<out.matches, out.projections>>]
        /\ UNCHANGED <<line_history, current_lines, recorded, recorded_keys, serverVars, tasks>>

(***************************************************************************)
(* Server (server.py): the snapshot and the store                          *)
(***************************************************************************)
\* data_cache as the module creates it: no "projections" key yet
InitialCache == [matches |-> <<>>, last_refresh |-> {}]

\* the matches and projections collections, empty
EmptyStore == [matches |-> <<>>, projections |-> <<>>]

\* players_by_team of generate_mock_data, in the order of its teams list
players_by_team ==
    <<
      [team |-> <<"N","a","v","i">>,
       players |-> <<<<"s","1","m","p","l","e">>, <<"e","l","e","c","t","r","o","n","i","c">>, <<"b","1","t">>, <<"A","l","e","k","s","i","b">>, <<"i","M">>>>],
      [team |-> <<"F","a","Z","e"," ","C","l","a","n">>,
       players |-> <<<<"r","a","i","n">>, <<"k","a","r","r","i","g","a","n">>, <<"r","o","p","z">>, <<"f","r","o","z","e","n">>, <<"b","r","o","k","y">>>>],
      [team |-> <<"G","2"," ","E","s","p","o","r","t","s">>,
       players |-> <<<<"N","i","K","o">>, <<"h","u","N","t","e","r">>, <<"m","0","N","E","S","Y">>, <<"H","o","o","X","i">>, <<"j","k","s">>>>],
      [team |-> <<"V","i","t","a","l","i","t","y">>,
       players |-> <<<<"Z","y","w","O","o">>, <<"a","p","E","X">>, <<"M","a","g","i","s","k">>, <<"S","p","i","n","x">>, <<"f","l","a","m","e","Z">>>>],
      [team |-> <<"L","i","q","u","i","d">>,
       players |-> <<<<"E","l","i","G","E">>, <<"N","A","F">>, <<"T","w","i","s","t","z","z">>, <<"n","i","t","r","0">>, <<"o","S","e","e">>>>],
      [team |-> <<"M","O","U","Z">>,
       players |-> <<<<"f","r","o","z","e","n">>, <<"r","o","p","z">>, <<"J","D","C">>, <<"t","o","r","z","s","i">>, <<"x","e","r","t","i","o","N">>>>],
      [team |-> <<"H","e","r","o","i","c">>,
       players |-> <<<<"c","a","d","i","a","N">>, <<"s","t","a","v","n">>, <<"T","e","S","e","S">>, <<"s","j","u","u","s","h">>, <<"j","a","b","b","i">>>>],
      [team |-> <<"A","s","t","r","a","l","i","s">>,
       players |-> <<<<"B","l","a","m","e","F">>, <<"k","0","n","f","i","g">>, <<"d","e","v","i","c","e">>, <<"X","y","p","9","x">>, <<"b","r","0">>>>]
    >>

\* the write of a snapshot to the store: delete_many and insert_many on
\* matches if there are matches, then on projections if there are
\* projections.  fail_at is the number of the operation that raises, 0 if
\* none does; an operation skipped cannot raise.
StoreWrite(store, matches, projections, fail_at) ==
    LET m_del == matches # <<>> /\ fail_at # 1
        m_ins == m_del /\ fail_at # 2
        m_raised == matches # <<>> /\ fail_at \in {1, 2}
        p_del == ~m_raised /\ projections # <<>> /\ fail_at # 3
        p_ins == p_del /\ fail_at # 4
        p_raised == ~m_raised /\ projections # <<>> /\ fail_at \in {3, 4}
    IN  [db |-> [matches |-> IF m_ins THEN matches
                             ELSE IF m_del THEN <<>> ELSE store.matches,
                 projections |-> IF p_ins THEN projections
                                 ELSE IF p_del THEN <<>> ELSE store.projections],
         raised |-> m_raised \/ p_raised]

\* the snapshot after data_cache["matches"], ["projections"] and
\* ["last_refresh"] are assigned
CacheOf(matches, projections, now) ==
    [matches |-> matches, projections |-> projections, last_refresh |-> {now}]

\* a projection of generate_mock_data: two lines, the difference and the
\* value flag computed from them; gen holds the rounded random draws (values
\* in tenths, lines in hundredths), difference is the rounded difference
GeneratedProjection(match_id, player, team, stat_type, gen, difference) ==
    [match_id |-> match_id,
     player_name |-> player,
     team |-> team,
     stat_type |-> stat_type,
     projected_value |-> gen.projected_value,
     confidence |-> gen.confidence,
     dfs_lines |-> <<[platform |-> prizepicks, stat_type |-> stat_type,
                      line |-> gen.line_prizepicks, maps |-> "Map1+Map2"],
                     [platform |-> underdog, stat_type |-> stat_type,
                      line |-> gen.line_underdog, maps |-> "Map1+Map2"]>>,
     value_opportunity |-> Abs(difference) > IF stat_type = kills THEN 30 ELSE 20,
     difference |-> difference]

\* round(projected_value - avg_dfs_line, 1), in tenths
GeneratedDifference(gen) ==
    RoundTenths(Frac(20 * gen.projected_value - gen.line_prizepicks - gen.line_underdog, 200))

\* the twenty projections of a generated match
GeneratedMatchProjections(match_id, pair, gen, dk, dh) ==
    [k \in 1..20 |->
        LET entry == players_by_team[IF k <= 10 THEN pair[1] ELSE pair[2]]
            player == entry.players[((k - 1) % 10) \div 2 + 1]
        IN  IF k % 2 = 1
            THEN GeneratedProjection(match_id, player, entry.team, kills, gen.kills, dk)
            ELSE GeneratedProjection(match_id, player, entry.team, headshots,
                                     gen.headshots, dh)]

\* generate_mock_data's six matches and their projections: gen.pairs are
\* the team pairs drawn (places in the teams list), gen.map1 and gen.map2
\* the maps, gen.kills and gen.headshots the draws every player gets
RECURSIVE GeneratedFrom(_, _, _, _, _)
GeneratedFrom(i, next_id, gen, dk, dh) ==
    IF i > Len(gen.pairs) THEN [matches |-> <<>>, projections |-> <<>>]
    ELSE LET rest == GeneratedFrom(i + 1, next_id + 1, gen, dk, dh)
             pair == gen.pairs[i]
         IN  [matches |->
                 <<[id |-> next_id, team1 |-> players_by_team[pair[1]].team,
                    team2 |-> players_by_team[pair[2]].team,
                    map1 |-> gen.map1, map2 |-> gen.map2, status |-> "upcoming"]>>
                 \o rest.matches,
              projections |->
                 GeneratedMatchProjections(next_id, pair, gen, dk, dh) \o rest.projections]

\* generate_mock_data on the snapshot and store given: the outcomes are the
\* snapshot and the store afterwards, the pair returned and whether the
\* store write raised
generate_mock_data(store, next_id, now, gen, fail_at) ==
    { LET data == GeneratedFrom(1, next_id, gen, dk, dh)
          write == StoreWrite(store, data.matches, data.projections, fail_at)
      IN  [data_cache |-> CacheOf(data.matches, data.projections, now),
           db |-> write.db,
           raised |-> write.raised,
           ret |-> <<data.matches, data.projections>>] :
      dk \in GeneratedDifference(gen.kills), dh \in GeneratedDifference(gen.headshots) }

\* fetch_real_data after aggregator.fetch_all_data returned out: the
\* snapshot and store afterwards, the pair returned and whether an
\* exception leaves the function.  fails[k] is the failing operation of the
\* k-th store write of the call.  The dicts the aggregator builds carry
\* every field Match and Projection require, so validation keeps them all.
fetch_real_data_of(out, now, gen, fails) ==
    LET next_id == out.pass.next_id
    IN  IF out.matches # <<>> /\ out.projections # <<>>
        THEN LET write == StoreWrite(db, out.matches, out.projections, fails[1])
             IN  IF ~write.raised
                 THEN { [data_cache |-> CacheOf(out.matches, out.projections, now),
                         db |-> write.db, raised |-> FALSE, generated |-> 0,
                         ret |-> <<out.matches, out.projections>>] }
                 ELSE { [data_cache |-> g.data_cache, db |-> g.db, raised |-> g.raised,
                         generated |-> 1, ret |-> g.ret] :
                        g \in generate_mock_data(write.db, next_id, now, gen, fails[2]) }
        ELSE UNION {
                 IF ~g1.raised
                 THEN { [data_cache |-> g1.data_cache, db |-> g1.db, raised |-> FALSE,
                         generated |-> 1, ret |-> g1.ret] }
                 ELSE { [data_cache |-> g2.data_cache, db |-> g2.db, raised |-> g2.raised,
                         generated |-> 2, ret |-> g2.ret] :
                        g2 \in generate_mock_data(g1.db, next_id + Len(gen.pairs), now,
                                                  gen, fails[2]) } :
                 g1 \in generate_mock_data(db, next_id, now, gen, fails[1]) }

\* server.fetch_real_data, the aggregation pass of the server: the call of
\* aggregator.fetch_all_data, the snapshot and the store write
fetch_real_data(hltv, pp, ud, draw, mock, gen, fails) ==
    \E out \in fetch_all_data_of(hltv, pp, ud, draw, mock) :
        \E res \in fetch_real_data_of(out, clock + 1, gen, fails) :
            /\ agg' = out.agg
            /\ player_form' = out.cache
            /\ scraping_status' = out.scraping_status
            /\ pass' = [out.pass EXCEPT !.next_id = @ + res.generated * Len(gen.pairs)]
            /\ clock' = clock + 2
            /\ data_cache' = res.data_cache
            /\ db' = res.db
            /\ call' = [op |-> "fetch_real_data", fetched |-> out.fetched,
                        branch |-> out.branch, before |-> scraping_status,
                        computed |-> <<out.matches, out.projections>>,
                        fails |-> fails, raised |-> res.raised,
                        generated |-> res.generated, ret |-> res.ret]
            /\ UNCHANGED <<line_history, current_lines, recorded, recorded_keys, tasks>>

\* data_cache.get("projections", [])
CachedProjections(cache) ==
    IF "projections" \in DOMAIN cache THEN cache.projections ELSE <<>>

\* next((m for m in matches if m.id == match_id), None), answering the first
\* match whatever its id
FirstMatch(matches, match_id) ==
    IF matches = <<>> THEN None ELSE Head(matches)

\* next((m for m in matches if m.id == match_id), None)
FindMatch(matches, match_id) ==
    LET found == SelectSeq(matches, LAMBDA m : m.id = match_id)
    IN  IF found = <<>> THEN None ELSE Head(found)

\* GET /matches/{match_id}: 404 when the snapshot holds no match of the id,
\* otherwise the match with the snapshot's projections of that match_id
get_match_detail(match_id) ==
    /\ LET match == FindMatch(data_cache.matches, match_id)
       IN  call' = IF match = None
                   THEN [op |-> "get_match_detail", match_id |-> match_id,
                         status |-> 404, detail |-> "Match not found"]
                   ELSE [op |-> "get_match_detail", match_id |-> match_id,
                         status |-> 200,
                         ret |-> [match |-> match,
                                  projections |->
                                     SelectSeq(CachedProjections(data_cache),
                                               LAMBDA p : p.match_id = match_id),
                                  last_updated |-> data_cache.last_refresh]]
    /\ UNCHANGED <<trackerVars, player_form, agg, pass, scraping_status, serverVars, tasks>>

\* hasattr(aggregator, 'line_tracker'): CS2DataAggregator.__init__ creates
\* no tracker and no other code assigns one
HasLineTracker == FALSE

\* GET /line-movements: aggregator.line_tracker.get_all_movements() and
\* get_tracker_stats(); the attribute lookup raises AttributeError when the
\* aggregator has no tracker
get_line_movements ==
    /\ IF HasLineTracker
       THEN \E r \in get_all_movements :
               call' = [op |-> "get_line_movements", raised |-> FALSE,
                        total_movements |-> Cardinality(DOMAIN r), movements |-> r]
       ELSE call' = [op |-> "get_line_movements", raised |-> TRUE,
                     error |-> "AttributeError"]
    /\ UNCHANGED <<trackerVars, player_form, agg, pass, scraping_status, serverVars, tasks>>

\* GET /line-movements/significant
get_significant_line_movements ==
    /\ IF HasLineTracker
       THEN \E r \in get_significant_movements :
               call' = [op |-> "get_significant_line_movements", raised |-> FALSE,
                        count |-> Len(r), significant_movements |-> r]
       ELSE call' = [op |-> "get_significant_line_movements", raised |-> TRUE,
                     error |-> "AttributeError"]
    /\ UNCHANGED <<trackerVars, player_form, agg, pass, scraping_status, serverVars, tasks>>

\* no call in progress
\* the requests that can be in flight on the event loop at once
Requests == {1, 2}

NoTasks ==
    [writer |-> [pc |-> "done", op |-> "", props |-> <<>>, hours |-> 0, timestamp |-> 0,
                 before |-> <<>>],
     reader |-> [pc |-> "done", op |-> "", query |-> <<>>, error |-> "", ret |-> <<>>,
                 history |-> <<>>, aliased |-> FALSE, current |-> <<>>, previous |-> <<>>,
                 used |-> 0],
     rounds |-> 0,
     refresh |-> [t \in Requests |-> [pc |-> "idle", matches |-> <<>>,
                                      projections |-> <<>>]]]

(***************************************************************************)
(* server.py: refreshes as coroutines on one event loop.  A coroutine runs *)
(* until it awaits a store operation; aggregator.fetch_all_data contains   *)
(* no await, so a refresh runs from its start to the assignment of the     *)
(* snapshot without a switch, and then yields at each of the four store    *)
(* operations.  The store operations succeed here.                         *)
(***************************************************************************)
\* the store operation a refresh awaits next
NextOp(pc, matches, projections) ==
    IF pc = "begin" /\ matches # <<>> THEN "matches.delete_many"
    ELSE IF pc = "matches.delete_many" THEN "matches.insert_many"
    ELSE IF pc \in {"begin", "matches.insert_many"} /\ projections # <<>>
    THEN "projections.delete_many"
    ELSE IF pc = "projections.delete_many" THEN "projections.insert_many"
    ELSE "done"

\* fetch_real_data (or generate_mock_data, when the pass returned nothing)
\* up to its first await of the store: the pass, the snapshot
RefreshBegin(t, hltv, pp, ud, draw, mock, gen) ==
    /\ tasks.refresh[t].pc = "idle"
    /\ \E out \in fetch_all_data_of(hltv, pp, ud, draw, mock) :
       \E dk \in GeneratedDifference(gen.kills), dh \in GeneratedDifference(gen.headshots) :
          LET real == out.matches # <<>> /\ out.projections # <<>>
              data == IF real THEN [matches |-> out.matches, projections |-> out.projections]
                      ELSE GeneratedFrom(1, out.pass.next_id, gen, dk, dh)
          IN  /\ agg' = out.agg
              /\ player_form' = out.cache
              /\ scraping_status' = out.scraping_status
              /\ pass' = [out.pass EXCEPT
                             !.next_id = @ + IF real THEN 0 ELSE Len(gen.pairs)]
              /\ clock' = clock + 2
              /\ data_cache' = CacheOf(data.matches, data.projections, clock + 1)
              /\ tasks' = [tasks EXCEPT
                    !.refresh[t] = [pc |-> NextOp("begin", data.matches, data.projections),
                                    matches |-> data.matches,
                                    projections |-> data.projections]]
              /\ call' = [op |-> "refresh", task |-> t, branch |-> out.branch]
    /\ UNCHANGED <<line_history, current_lines, recorded, recorded_keys, db>>

\* the awaited store operation of refresh t runs and the coroutine resumes
\* up to its next await or its return; insert_many adds to the collection
RefreshStep(t) ==
    /\ tasks.refresh[t].pc \notin {"idle", "done"}
    /\ LET r == tasks.refresh[t]
       IN  /\ db' = IF r.pc = "matches.delete_many" THEN [db EXCEPT !.matches = <<>>]
                    ELSE IF r.pc = "matches.insert_many"
                    THEN [db EXCEPT !.matches = @ \o r.matches]
                    ELSE IF r.pc = "projections.delete_many"
                    THEN [db EXCEPT !.projections = <<>>]
                    ELSE [db EXCEPT !.projections = @ \o r.projections]
           /\ tasks' = [tasks EXCEPT
                 !.refresh[t].pc = NextOp(r.pc, r.matches, r.projections)]
           /\ call' = [op |-> r.pc, task |-> t]
    /\ UNCHANGED <<trackerVars, player_form, agg, pass, scraping_status, data_cache>>

(***************************************************************************)
(* The tracker called from two threads: a write (record_lines or           *)
(* clear_old_history) and a read (get_line_movement or get_all_movements)  *)
(* in progress at once.  The tracker takes no lock; the threads switch     *)
(* between the statements below.  A list a thread holds is the list object *)
(* of the history: an append in place shows in it, a list that replaces    *)
(* the history (trim, prune) does not.                                     *)
(***************************************************************************)
otherVars == <<player_form, agg, pass, scraping_status, serverVars, call>>

\* the two threads are between calls
ThreadsIdle == tasks.reader.pc = "done" /\ tasks.writer.pc = "done"

\* the calls of a round start: the write reads the clock
StartThreads(write, read) ==
    /\ ThreadsIdle
    /\ tasks' = [writer |-> [pc |-> IF write.op = "record_lines" THEN "append" ELSE "prune",
                             op |-> write.op, props |-> write.props, hours |-> write.hours,
                             timestamp |-> clock, before |-> line_history],
                 reader |-> [pc |-> "start", op |-> read.op, query |-> read.query,
                             error |-> "", ret |-> None, history |-> <<>>,
                             aliased |-> FALSE, current |-> None, previous |-> None,
                             used |-> 0],
                 rounds |-> tasks.rounds + 1,
                 refresh |-> tasks.refresh]
    /\ clock' = clock + 1
    /\ UNCHANGED <<line_history, current_lines, recorded, recorded_keys, otherVars>>

\* the reader holds the list object of this player's history key
ReaderHolds(player_name, key) ==
    /\ tasks.reader.op = "get_line_movement"
    /\ tasks.reader.query[1] = player_name
    /\ history_key(tasks.reader.query[2], tasks.reader.query[3]) = key
    /\ tasks.reader.aliased

\* record_lines, the append of one prop:
\* self.line_history[player_name][key].append({...}); a prop without
\* player, stat or line is skipped
WriteAppend ==
    /\ tasks.writer.pc = "append"
    /\ LET w == tasks.writer
       IN  IF w.props = <<>>
           THEN /\ tasks' = [tasks EXCEPT !.writer.pc = "done"]
                /\ UNCHANGED <<line_history, recorded, recorded_keys>>
           ELSE IF ~Recordable(Head(w.props))
           THEN /\ tasks' = [tasks EXCEPT !.writer.props = Tail(@)]
                /\ UNCHANGED <<line_history, recorded, recorded_keys>>
           ELSE LET prop == Head(w.props)
                    platform == PlatformOf(prop)
                    key == history_key(prop.stat_type, platform)
                    entry == [timestamp |-> w.timestamp, line |-> prop.line,
                              platform |-> platform]
                IN  /\ line_history' = SetHistory(line_history, prop.player_name, key,
                            Append(HistoryOf(line_history, prop.player_name, key), entry))
                    /\ recorded' = SetHistory(recorded, prop.player_name, key,
                            Append(HistoryOf(recorded, prop.player_name, key), entry))
                    /\ recorded_keys' = recorded_keys
                            \cup {<<prop.player_name, prop.stat_type, platform>>}
                    /\ tasks' = [tasks EXCEPT
                            !.writer.pc = "index",
                            !.reader.history =
                                IF ReaderHolds(prop.player_name, key)
                                THEN Append(@, entry) ELSE @]
    /\ UNCHANGED <<current_lines, clock, otherVars>>

\* record_lines, the rest of the iteration: the trim to the last 50 entries,
\* which stores a new list, and self.current_lines[key] = {...}
WriteIndex ==
    /\ tasks.writer.pc = "index"
    /\ LET w == tasks.writer
           prop == Head(w.props)
           platform == PlatformOf(prop)
           key == history_key(prop.stat_type, platform)
           history == HistoryOf(line_history, prop.player_name, key)
           entry == [timestamp |-> w.timestamp, line |-> prop.line, platform |-> platform]
       IN  /\ line_history' = SetHistory(line_history, prop.player_name, key, Trim(history))
           /\ current_lines' =
                 [k \in DOMAIN current_lines \cup
                        {current_key(prop.player_name, prop.stat_type, platform)} |->
                     IF k = current_key(prop.player_name, prop.stat_type, platform)
                     THEN entry ELSE current_lines[k]]
           /\ tasks' = [tasks EXCEPT
                 !.writer.pc = "append",
                 !.writer.props = Tail(@),
                 !.reader.aliased =
                     IF ReaderHolds(prop.player_name, key) /\ Len(history) > MaxHistory
                     THEN FALSE ELSE @]
    /\ UNCHANGED <<recorded, recorded_keys, clock, otherVars>>

\* clear_old_history: its loops, run without a switch; every history is
\* replaced by a filtered list
WritePrune ==
    /\ tasks.writer.pc = "prune"
    /\ line_history' = Pruned(line_history, tasks.writer.timestamp - tasks.writer.hours)
    /\ tasks' = [tasks EXCEPT !.writer.pc = "done", !.reader.aliased = FALSE]
    /\ UNCHANGED <<current_lines, recorded, recorded_keys, clock, otherVars>>

\* get_line_movement up to `history = self.line_history[player_name][history_key]`
\* and the returns for a history shorter than two entries
ReadLoad ==
    /\ tasks.reader.pc = "start"
    /\ tasks.reader.op = "get_line_movement"
    /\ LET q == tasks.reader.query
           key == history_key(q[2], q[3])
           present == q[1] \in DOMAIN line_history /\ key \in DOMAIN line_history[q[1]]
           history == HistoryOf(line_history, q[1], key)
       IN  tasks' = IF ~present
                    THEN [tasks EXCEPT !.reader.pc = "done", !.reader.ret = None]
                    ELSE IF Len(history) < 2
                    THEN [tasks EXCEPT !.reader.pc = "done",
                                       !.reader.ret = NewMovement(history)]
                    ELSE [tasks EXCEPT !.reader.pc = "loaded",
                                       !.reader.history = history,
                                       !.reader.aliased = TRUE]
    /\ UNCHANGED <<trackerVars, otherVars>>

\* current = history[-1]
ReadCurrent ==
    /\ tasks.reader.pc = "loaded"
    /\ tasks' = [tasks EXCEPT
          !.reader.pc = "current",
          !.reader.current = tasks.reader.history[Len(tasks.reader.history)]]
    /\ UNCHANGED <<trackerVars, otherVars>>

\* previous = history[-2]
ReadPrevious ==
    /\ tasks.reader.pc = "current"
    /\ tasks' = [tasks EXCEPT
          !.reader.pc = "previous",
          !.reader.previous = tasks.reader.history[Len(tasks.reader.history) - 1]]
    /\ UNCHANGED <<trackerVars, otherVars>>

\* the record get_line_movement builds from the entries it read and from
\* len(history) and history[0] read at the return
MovementOfReads(current, previous, history, stat_type, rounded) ==
    [current_line |-> current.line,
     previous_line |-> {previous.line},
     movement |-> rounded,
     movement_direction |-> Direction(current.line - previous.line),
     is_significant |-> Abs(current.line - previous.line) >= ThresholdFor(stat_type),
     history_count |-> Len(history),
     first_seen |-> history[1].timestamp,
     last_updated |-> current.timestamp]

\* the rest of get_line_movement
ReadFinish ==
    /\ tasks.reader.pc = "previous"
    /\ LET r == tasks.reader
       IN  \E rounded \in Round1(r.current.line - r.previous.line) :
              tasks' = [tasks EXCEPT
                 !.reader.pc = "done",
                 !.reader.ret = MovementOfReads(r.current, r.previous, r.history,
                                                r.query[2], rounded)]
    /\ UNCHANGED <<trackerVars, otherVars>>

\* get_all_movements: `for player_name, stats in self.line_history.items()`
\* creates the iterator, which remembers the size of the dict
ReadBegin ==
    /\ tasks.reader.pc = "start"
    /\ tasks.reader.op = "get_all_movements"
    /\ tasks' = [tasks EXCEPT !.reader.pc = "iterating",
                              !.reader.used = Cardinality(DOMAIN line_history)]
    /\ UNCHANGED <<trackerVars, otherVars>>

\* the iterator's next(): RuntimeError("dictionary changed size during
\* iteration") if the dict has another size than at the start; otherwise the
\* loops, run without a switch
ReadIterate ==
    /\ tasks.reader.pc = "iterating"
    /\ IF Cardinality(DOMAIN line_history) # tasks.reader.used
       THEN tasks' = [tasks EXCEPT !.reader.pc = "done",
                                   !.reader.error = "RuntimeError"]
       ELSE \E movements \in get_all_movements :
               tasks' = [tasks EXCEPT !.reader.pc = "done", !.reader.ret = movements]
    /\ UNCHANGED <<trackerVars, otherVars>>

(***************************************************************************)
(* The tracker's callers: the props recorded and the keys queried          *)
(***************************************************************************)
PlayerA == <<"a","x">>

PlayerB == <<"b">>

Kills == <<"K","i","l","l","s">>

hs == <<"h","s">>

hs_m1 == <<"h","s","_","m","1">>

m1_prizepicks == <<"m","1","_">> \o prizepicks

\* lines, in hundredths: 10.0, 10.5, 11.5, 11.75
TrackerLines == {1000, 1050, 1150, 1175}

KillsProp(l) == [player_name |-> PlayerA, stat_type |-> Kills, line |-> l]

HsM1Prop(l) ==
    [player_name |-> PlayerA, stat_type |-> hs_m1, line |-> l, platform |-> prizepicks]

HsProp(l) ==
    [player_name |-> PlayerA, stat_type |-> hs, line |-> l, platform |-> m1_prizepicks]

\* the prop lists handed to record_lines: one prop per key and line, props
\* lacking a player, a stat or a line, and lists of two props
TrackerPropLists ==
    {<<KillsProp(l)>> : l \in TrackerLines}
    \cup {<<HsM1Prop(l)>> : l \in TrackerLines}
    \cup {<<HsProp(l)>> : l \in {1000, 1150}}
    \cup {<<KillsProp(0)>>,
          <<[player_name |-> <<>>, stat_type |-> Kills, line |-> 1000]>>,
          <<[player_name |-> PlayerB, line |-> 1000, platform |-> underdog]>>,
          <<KillsProp(1000), KillsProp(1175)>>,
          <<KillsProp(0), HsM1Prop(1050)>>}

\* the (player, stat, platform) triples get_line_movement is asked about
Queries ==
    {<<PlayerA, Kills, prizepicks>>, <<PlayerA, hs_m1, prizepicks>>,
     <<PlayerA, hs, m1_prizepicks>>, <<PlayerA, hs, prizepicks>>,
     <<PlayerA, Kills, underdog>>, <<PlayerB, Kills, prizepicks>>}

\* the number of record_lines calls of a run
MaxCalls == 3

\* no aggregation pass made yet
Idle == [n |-> 0, next_id |-> 1, hltv_matches |-> <<>>, pp_props |-> <<>>,
         ud_props |-> <<>>, found |-> <<>>]

Init ==
    /\ line_history = EmptyDict
    /\ current_lines = EmptyDict
    /\ recorded = EmptyDict
    /\ recorded_keys = {}
    /\ clock = 0
    /\ call = [op |-> "init"]
    /\ player_form = EmptyDict
    /\ agg = EmptyDict
    /\ pass = Idle
    /\ scraping_status = InitialStatus
    /\ data_cache = InitialCache
    /\ db = EmptyStore
    /\ tasks = NoTasks

Next ==
    \/ \E props \in TrackerPropLists : clock < MaxCalls /\ record_lines(props)
    \/ \E q \in Queries : GetLineMovement(q[1], q[2], q[3])

Spec == Init /\ [][Next]_vars

(***************************************************************************)
(* The projection model's callers                                          *)
(***************************************************************************)
FaZe == <<"F","a","Z","e">>

faze_clan == <<"f","a","z","e"," ","c","l","a","n">>

ENCE == <<"E","N","C","E">>

NoTeam == <<>>

\* (player's team, opposing team)
TeamPairs == {<<FaZe, ENCE>>, <<faze_clan, NoTeam>>, <<ENCE, ENCE>>}

\* a DFS line as _find_matching_props builds it; line in hundredths
DFSLine(platform, stat_type, line) ==
    [platform |-> platform, stat_type |-> stat_type, line |-> line, maps |-> "Map1+Map2"]

\* (stat_type, dfs_lines): kills at 45.5 and 44.0, headshots at 18.5 and 20.0
StatLines ==
    {<<kills, <<>> >>,
     <<kills, <<DFSLine(prizepicks, kills, 4550)>> >>,
     <<kills, <<DFSLine(prizepicks, kills, 4550), DFSLine(underdog, kills, 4400)>> >>,
     <<headshots, <<DFSLine(prizepicks, headshots, 1850)>> >>,
     <<headshots, <<DFSLine(prizepicks, headshots, 1850),
                    DFSLine(underdog, headshots, 2000)>> >>}

\* samples of gauss(1.0, 0.05), in hundredths
FormSamples == {80, 97, 130}

\* samples of gauss(0, 0.10), in hundredths
VarianceSamples == {-30, 0, 10}

Draws == [gauss : FormSamples, variance : VarianceSamples]

\* the stats provider injected into the model: real data enabled, a recent
\* form of 1.10 held for PlayerA
StatsFetcher == [enable_real_data |-> TRUE, player_cache |-> [p \in {PlayerA} |-> 110]]

PlayerProp(player_name, team, stat_lines) ==
    [player_name |-> player_name, team |-> team,
     stat_type |-> stat_lines[1], dfs_lines |-> stat_lines[2]]

\* the player_props lists handed to generate_match_projections
MatchPropLists ==
    {<<>>,
     <<PlayerProp(PlayerA, FaZe,
          <<kills, <<DFSLine(prizepicks, kills, 4550), DFSLine(underdog, kills, 4400)>> >>),
       PlayerProp(PlayerA, FaZe, <<headshots, <<DFSLine(prizepicks, headshots, 1850)>> >>)>>,
     <<[player_name |-> PlayerB, team |-> ENCE, stat_type |-> kills],
       PlayerProp(PlayerA, faze_clan, <<kills, <<DFSLine(prizepicks, kills, 4550)>> >>)>>,
     <<PlayerProp(PlayerA, FaZe, <<kills, <<DFSLine(prizepicks, kills, 4550)>> >>),
       PlayerProp(PlayerB, ENCE, <<kills, <<>> >>),
       PlayerProp(PlayerB, ENCE, <<headshots, <<DFSLine(underdog, headshots, 2000)>> >>)>>}

\* the draws of a call of generate_match_projections, one per prop
MatchDraws ==
    {[gauss |-> 97, variance |-> 10], [gauss |-> 80, variance |-> -30],
     [gauss |-> 130, variance |-> 0]}

DrawLists(player_props) == [1..Len(player_props) -> MatchDraws]

NextProj ==
    \/ \E player \in {PlayerA}, teams \in TeamPairs, sl \in StatLines, d \in Draws :
          GenerateProjection(player, teams[1], teams[2], sl[1], sl[2], d.gauss, d.variance)
    \/ \E match_id \in {1}, teams \in {<<FaZe, ENCE>>},
          player_props \in MatchPropLists :
          \E draws \in DrawLists(player_props) :
             GenerateMatchProjections(match_id, teams[1], teams[2], player_props, draws)

SpecProj == Init /\ [][NextProj]_vars

(***************************************************************************)
(* A long run of observations of one key: the history cap                  *)
(***************************************************************************)
\* lines of the long run, in hundredths
CapLines == {1000, 1150}

\* the observations of the one key in a long run
MaxObservations == 60

\* the line changes and two-prop calls in a long run
MaxDeviations == 1

HotLog == HistoryOf(recorded, PlayerA, history_key(Kills, prizepicks))

\* the places of a log where the line changed or two props came in one call
Deviations(log) ==
    Cardinality({i \in 2..Len(log) :
        log[i].line # log[i-1].line \/ log[i].timestamp = log[i-1].timestamp})

MayDeviate == Deviations(HotLog) < MaxDeviations

\* l repeats the line last observed (or is the first line observed)
SameLine(l) == IF HotLog = <<>> THEN TRUE ELSE l = HotLog[Len(HotLog)].line

RecordObservation(l) ==
    /\ Len(HotLog) < MaxObservations
    /\ IF SameLine(l) THEN TRUE ELSE MayDeviate
    /\ record_lines(<<KillsProp(l)>>)

RecordTwoObservations(l) ==
    /\ Len(HotLog) + 1 < MaxObservations
    /\ MayDeviate
    /\ SameLine(l)
    /\ record_lines(<<KillsProp(l), KillsProp(l)>>)

NextCap ==
    \/ \E l \in CapLines : RecordObservation(l)
    \/ \E l \in CapLines : RecordTwoObservations(l)

SpecCap == Init /\ [][NextCap]_vars

(***************************************************************************)
(* The aggregator's callers: the feeds and match lists of a pass           *)
(***************************************************************************)
Digits == <<"0","1","2","3","4","5","6","7","8","9">>

\* the name of the i-th player of a feed: "p001", "p002", ...
PlayerNamed(i) ==
    <<"p", Digits[(i \div 100) + 1], Digits[((i \div 10) % 10) + 1], Digits[(i % 10) + 1]>>

G2 == <<"G","2">>

MOUZ == <<"M","O","U","Z">>

FaZeClan == <<"F","a","Z","e"," ","C","l","a","n">>

\* props of players first..last that carry no team: kills at 45.5
NoTeamProps(first, last) ==
    [i \in 1..(last - first + 1) |->
        [player_name |-> PlayerNamed(first + i - 1), stat_type |-> kills, line |-> 4550]]

\* props of players first..last that carry an empty team: headshots at 18.5
EmptyTeamProps(first, last) ==
    [i \in 1..(last - first + 1) |->
        [player_name |-> PlayerNamed(first + i - 1), team |-> <<>>,
         stat_type |-> headshots, line |-> 1850]]

\* 11 players without team: two chunks of 10
Feed11 == [pp |-> NoTeamProps(1, 11), ud |-> <<>>]

\* 110 players without team: chunks of 11
Feed110 == [pp |-> EmptyTeamProps(1, 100), ud |-> NoTeamProps(101, 110)]

\* four players without team; lines of 0.0, a line overwritten by a later
\* prop, stats on one platform only and on both
FeedMixed ==
    [pp |-> <<[player_name |-> PlayerNamed(1), stat_type |-> kills, line |-> 4550],
              [player_name |-> PlayerNamed(1), stat_type |-> headshots, line |-> 0],
              [player_name |-> PlayerNamed(2), stat_type |-> kills, line |-> 0],
              [player_name |-> PlayerNamed(3), stat_type |-> headshots, line |-> 1850],
              [player_name |-> PlayerNamed(3), stat_type |-> headshots, line |-> 0]>>,
     ud |-> <<[player_name |-> PlayerNamed(1), stat_type |-> kills, line |-> 4400],
              [player_name |-> PlayerNamed(2), stat_type |-> kills, line |-> 0],
              [player_name |-> PlayerNamed(4), stat_type |-> headshots, line |-> 2000]>>]

\* players with teams, one without
FeedTeams ==
    [pp |-> <<[player_name |-> PlayerNamed(1), team |-> FaZe,
               stat_type |-> kills, line |-> 4550],
              [player_name |-> PlayerNamed(2), team |-> ENCE,
               stat_type |-> kills, line |-> 4400],
              [player_name |-> PlayerNamed(3), team |-> <<"N","a","v","i">>,
               stat_type |-> headshots, line |-> 1850]>>,
     ud |-> <<[player_name |-> PlayerNamed(1), stat_type |-> kills, line |-> 4400],
              [player_name |-> PlayerNamed(4), stat_type |-> headshots, line |-> 2000]>>]

Feeds == {Feed11, Feed110, FeedMixed, FeedTeams}

\* the hltv_matches lists of a pass
MatchLists ==
    {<<[team1 |-> G2, team2 |-> MOUZ], [team1 |-> FaZeClan, team2 |-> ENCE]>>,
     <<[team1 |-> FaZeClan, team2 |-> ENCE], [team1 |-> G2, team2 |-> MOUZ],
       [team1 |-> ENCE, team2 |-> G2]>>}

\* the sample every prop of a pass draws
AggDraws == {[gauss |-> 97, variance |-> 10], [gauss |-> 80, variance |-> -30]}

\* the number of aggregation passes of a run
MaxPasses == 2

NextAgg ==
    \E feed \in Feeds, hltv_matches \in MatchLists, draw \in AggDraws :
        pass.n < MaxPasses /\ _combine_data(hltv_matches, feed.pp, feed.ud, draw)

SpecAgg == Init /\ [][NextAgg]_vars

(***************************************************************************)
(* The aggregation pass of the server: fetches that return, return nothing *)
(* or raise, and a store that can fail                                     *)
(***************************************************************************)
\* what the match feed can do
HltvResults ==
    {Returned(<<>>), Raised("timeout"),
     Returned(<<[team1 |-> G2, team2 |-> MOUZ], [team1 |-> FaZeClan, team2 |-> ENCE]>>)}

\* what the PrizePicks feed and the Underdog feed can do
PrizepicksResults == {Returned(<<>>), Raised("403"), Returned(FeedTeams.pp)}

UnderdogResults == {Returned(<<>>), Raised("unavailable"), Returned(FeedTeams.ud)}

\* the draws of the mock branch: kills 42.3 against a line of 43.5 with a
\* drawn difference of 0.7 or of -1.2, headshots 18.4 against 18.0
MockDraws ==
    {[kills |-> [projected_value |-> 423, confidence |-> 801, line |-> 4350,
                 difference |-> d],
      headshots |-> [projected_value |-> 184, confidence |-> 755, line |-> 1800,
                     difference |-> 4]] : d \in {7, -12}}

\* the draws of generate_mock_data
GeneratedDraws ==
    {[pairs |-> << <<1, 2>>, <<3, 4>>, <<5, 6>>, <<7, 8>>, <<2, 3>>, <<6, 1>> >>,
      map1 |-> "Mirage", map2 |-> "Nuke",
      kills |-> [projected_value |-> 412, confidence |-> 880,
                 line_prizepicks |-> 4000, line_underdog |-> 4350],
      headshots |-> [projected_value |-> 150, confidence |-> 700,
                     line_prizepicks |-> 1450, line_underdog |-> 1600]]}

\* the failing operation of the first and of the second store write of a pass
FailPlans == {<<0, 0>>, <<2, 0>>, <<4, 4>>}

\* the number of passes of a run
MaxFetches == 2

NextFetch ==
    \E hltv \in HltvResults, pp \in PrizepicksResults, ud \in UnderdogResults,
       draw \in {[gauss |-> 97, variance |-> 10]}, mock \in MockDraws :
       pass.n < MaxFetches /\ fetch_all_data(hltv, pp, ud, draw, mock)

SpecFetch == Init /\ [][NextFetch]_vars

\* the number of passes of a run of the server
MaxRefreshes == 2

NextServer ==
    \E hltv \in {h \in HltvResults : h # Returned(<<>>)},
       pp \in {r \in PrizepicksResults : ~r.raises},
       ud \in {Returned(<<>>)},
       draw \in {[gauss |-> 97, variance |-> 10]}, mock \in MockDraws,
       gen \in GeneratedDraws, fails \in FailPlans :
       pass.n < MaxRefreshes /\ fetch_real_data(hltv, pp, ud, draw, mock, gen, fails)

SpecServer == Init /\ [][NextServer]_vars

(***************************************************************************)
(* Refreshes and match-detail lookups                                      *)
(***************************************************************************)
\* the ids asked for: ids of served matches and an id never issued
MatchIds == {1, 2, 8, 99}

NextDetail ==
    \/ \E hltv \in {h \in HltvResults : h # Returned(<<>>)},
          pp \in {r \in PrizepicksResults : ~r.raises},
          ud \in {Returned(<<>>)},
          draw \in {[gauss |-> 97, variance |-> 10]},
          mock \in {m \in MockDraws : m.kills.difference = 7},
          gen \in GeneratedDraws, fails \in {<<0, 0>>} :
          pass.n < MaxRefreshes /\ fetch_real_data(hltv, pp, ud, draw, mock, gen, fails)
    \/ \E match_id \in MatchIds : get_match_detail(match_id)

SpecDetail == Init /\ [][NextDetail]_vars

(***************************************************************************)
(* Aggregation passes and the line-movement endpoints                      *)
(***************************************************************************)
NextLines ==
    \/ \E hltv \in {h \in HltvResults : h # Returned(<<>>)},
          pp \in {r \in PrizepicksResults : ~r.raises},
          ud \in {r \in UnderdogResults : ~r.raises},
          draw \in {[gauss |-> 97, variance |-> 10]}, mock \in MockDraws :
          pass.n < MaxFetches /\ fetch_all_data(hltv, pp, ud, draw, mock)
    \/ get_line_movements
    \/ get_significant_line_movements

SpecLines == Init /\ [][NextLines]_vars

(***************************************************************************)
(* Two refresh requests on the event loop                                  *)
(***************************************************************************)
NextRefresh ==
    \/ \E t \in Requests,
          hltv \in {h \in HltvResults : ~h.raises},
          pp \in {r \in PrizepicksResults : ~r.raises},
          ud \in {Returned(<<>>)},
          draw \in {[gauss |-> 97, variance |-> 10]}, mock \in MockDraws,
          gen \in GeneratedDraws :
          RefreshBegin(t, hltv, pp, ud, draw, mock, gen)
    \/ \E t \in Requests : RefreshStep(t)

SpecRefresh == Init /\ [][NextRefresh]_vars

(***************************************************************************)
(* Rounds of one write and one read running at once                        *)
(***************************************************************************)
\* the writes of a round: record_lines of one prop, of a prop of a new
\* player, or clear_old_history(1)
ThreadWrites ==
    {[op |-> "record_lines", props |-> <<[player_name |-> <<"a","x">>,
         stat_type |-> <<"K","i","l","l","s">>, line |-> l]>>, hours |-> 0] :
        l \in {1000, 1150}}
    \cup {[op |-> "record_lines", props |-> <<[player_name |-> <<"b">>,
              stat_type |-> <<"h","s">>, line |-> 1000]>>, hours |-> 0],
          [op |-> "clear_old_history", props |-> <<>>, hours |-> 1]}

\* the reads of a round
ThreadReads ==
    {[op |-> "get_line_movement",
      query |-> << <<"a","x">>, <<"K","i","l","l","s">>, prizepicks>>],
     [op |-> "get_all_movements", query |-> <<>>]}

\* the number of rounds of a run
MaxRounds == 3

NextThreads ==
    \/ \E write \in ThreadWrites, read \in ThreadReads :
          /\ tasks.rounds < MaxRounds
          /\ StartThreads(write, read)
    \/ WriteAppend
    \/ WriteIndex
    \/ WritePrune
    \/ ReadLoad
    \/ ReadCurrent
    \/ ReadPrevious
    \/ ReadFinish
    \/ ReadBegin
    \/ ReadIterate

SpecThreads == Init /\ [][NextThreads]_vars

(***************************************************************************)
(* The tracker's accessors and pruning: several players, calls an hour     *)
(* apart                                                                   *)
(***************************************************************************)
PlayerBhs == <<"b","_","h","s">>

m1 == <<"m","1">>

BProp(l) ==
    [player_name |-> PlayerB, stat_type |-> hs_m1, line |-> l, platform |-> prizepicks]

BhsProp(l) ==
    [player_name |-> PlayerBhs, stat_type |-> m1, line |-> l, platform |-> prizepicks]

\* the prop lists recorded: three keys at lines 10.0, 11.5 and 11.75
MovementPropLists ==
    {<<BProp(1000)>>, <<BProp(1150)>>, <<BhsProp(1150)>>, <<KillsProp(1175)>>,
     <<BProp(1000), BhsProp(1000), KillsProp(1000)>>}

\* the hours argument of clear_old_history
ClearHours == {1, 3}

\* the triples get_line_movement is asked about
MovementQueries == {<<PlayerB, hs_m1, prizepicks>>}

\* the number of calls of a run that read the clock
MaxMovementCalls == 4

NextMov ==
    \/ \E props \in MovementPropLists : clock < MaxMovementCalls /\ record_lines(props)
    \/ \E hours \in ClearHours : clock < MaxMovementCalls /\ clear_old_history(hours)
    \/ \E q \in MovementQueries : GetLineMovement(q[1], q[2], q[3])
    \/ GetAllMovements
    \/ GetSignificantMovements

SpecMov == Init /\ [][NextMov]_vars

(***************************************************************************)
(* Claims about the tracker                                                *)
(***************************************************************************)
\* the last n entries of a log, oldest first
LastEntries(log, n) ==
    LET m == IF Len(log) < n THEN Len(log) ELSE n
    IN  [i \in 1..m |-> log[Len(log) - m + i]]

\* C1: every history the tracker holds for a (player, stat, platform) key
\* has at most 50 entries, and they are the most recently recorded entries
\* of that key, in recording order: after 60 observations the last 50 remain.
C1_HistoryIsLast50 ==
    \A p \in DOMAIN line_history : \A k \in DOMAIN line_history[p] :
        /\ Len(line_history[p][k]) <= 50
        /\ line_history[p][k] = LastEntries(HistoryOf(recorded, p, k), 50)

\* 60 observations of one key were recorded, 50 remain, the oldest 10 are gone
C1_Witness ==
    LET h == HistoryOf(line_history, PlayerA, history_key(Kills, prizepicks))
    IN  /\ Len(HotLog) = 60
        /\ Len(h) = 50
        /\ h[1] = HotLog[11]
        /\ h[50] = HotLog[60]
        /\ HotLog[1].timestamp < h[1].timestamp

\* the history get_line_movement reads for the key of the last call
AskedHistory ==
    HistoryOf(line_history, call.player_name, history_key(call.stat_type, call.platform))

\* the last call was get_line_movement on a key with two or more entries
AskedMovement == call.op = "get_line_movement" /\ Len(AskedHistory) >= 2

AskedCurrent == AskedHistory[Len(AskedHistory)]

AskedPrevious == AskedHistory[Len(AskedHistory) - 1]

\* C6 as stated: with two or more entries, current_line is the latest entry,
\* previous_line the one before it, and the reported movement is exactly
\* current_line minus previous_line.
C6_MovementIsExactDifference ==
    AskedMovement =>
        /\ call.ret.current_line = AskedCurrent.line
        /\ call.ret.previous_line = {AskedPrevious.line}
        /\ call.ret.movement = AskedCurrent.line - AskedPrevious.line

\* C6 amended: with two or more entries, current_line is the latest entry,
\* previous_line the one before it, the reported movement is current_line
\* minus previous_line rounded to one decimal place, and movement, direction
\* and significance are those of the history of these two entries alone.
C6_MovementFromLastTwo ==
    AskedMovement =>
        /\ call.ret.current_line = AskedCurrent.line
        /\ call.ret.previous_line = {AskedPrevious.line}
        /\ call.ret.movement % 10 = 0
        /\ 2 * Abs(call.ret.movement - (AskedCurrent.line - AskedPrevious.line)) <= 10
        /\ \E two \in get_line_movement_of(<<AskedPrevious, AskedCurrent>>, call.stat_type) :
              /\ call.ret.movement = two.movement
              /\ call.ret.movement_direction = two.movement_direction
              /\ call.ret.is_significant = two.is_significant

\* a key with three entries is asked about; the oldest differs from the previous one
C6_Witness ==
    /\ AskedMovement
    /\ Len(AskedHistory) >= 3
    /\ AskedHistory[1].line # AskedPrevious.line
    /\ (AskedCurrent.line - AskedPrevious.line) % 10 # 0

\* C7: with two or more entries, direction is 'up' exactly when current_line
\* minus previous_line is above 0.5, 'down' exactly when it is below -0.5,
\* and 'stable' otherwise.
C7_Direction ==
    AskedMovement =>
        LET movement == AskedCurrent.line - AskedPrevious.line
        IN  /\ (call.ret.movement_direction = "up") = (movement > 50)
            /\ (call.ret.movement_direction = "down") = (movement < -50)
            /\ (call.ret.movement_direction = "stable") =
                  (movement >= -50 /\ movement <= 50)

\* a movement of exactly 0.5 is reported stable
C7_Witness ==
    /\ AskedMovement
    /\ AskedCurrent.line - AskedPrevious.line = 50
    /\ call.ret.movement_direction = "stable"

\* the stats asked about whose name contains "kill", case-insensitively
KillStats == {Kills}

\* C8: with two or more entries, is_significant is true exactly when
\* |current_line - previous_line| >= 1.5 for a stat whose name contains
\* "kill" in any case, and exactly when it is >= 1.0 for any other stat.
C8_Significance ==
    AskedMovement =>
        LET movement == AskedCurrent.line - AskedPrevious.line
        IN  call.ret.is_significant =
                IF call.stat_type \in KillStats
                THEN Abs(movement) >= 150
                ELSE Abs(movement) >= 100

\* a kills stat moved by 1.25: significant for another stat, not for kills
C8_Witness ==
    /\ AskedMovement
    /\ call.stat_type = Kills
    /\ Abs(AskedCurrent.line - AskedPrevious.line) = 125
    /\ call.ret.is_significant = FALSE

\* C9: get_line_movement returns None for every (player, stat, platform)
\* for which no prop with exactly that player, stat and platform was recorded.
C9_NoneIfNeverRecorded ==
    (/\ call.op = "get_line_movement"
     /\ <<call.player_name, call.stat_type, call.platform>> \notin recorded_keys)
        => call.ret = None

\* C10: for a key with exactly one entry, get_line_movement returns movement
\* 0, direction 'new', is_significant false, no previous_line, and the
\* entry's line as current_line.
C10_NewMovement ==
    (call.op = "get_line_movement" /\ Len(AskedHistory) = 1) =>
        /\ call.ret # None
        /\ call.ret.movement = 0
        /\ call.ret.movement_direction = "new"
        /\ call.ret.is_significant = FALSE
        /\ call.ret.previous_line = NoLine
        /\ call.ret.current_line = AskedHistory[1].line

\* a key recorded once is asked about
C10_Witness ==
    /\ call.op = "get_line_movement"
    /\ Len(AskedHistory) = 1
    /\ <<call.player_name, call.stat_type, call.platform>> \in recorded_keys

(***************************************************************************)
(* Claims about the projection model                                       *)
(***************************************************************************)
\* the projections the last call emitted: the dict of generate_projection,
\* or the list of generate_match_projections
Emitted ==
    IF call.op = "generate_projection"
    THEN IF call.ret = None THEN {}
         ELSE {[stat_type |-> call.stat_type, projection |-> call.ret]}
    ELSE IF call.op = "generate_match_projections"
    THEN {[stat_type |-> call.ret[i].stat_type, projection |-> call.ret[i]] :
             i \in 1..Len(call.ret)}
    ELSE {}

\* C2: for every emitted projection, value_opportunity is true exactly when
\* the absolute value of the emitted difference field is at least the stat's
\* threshold: 3.0 for kills, 2.0 for headshots (the difference is in tenths).
C2_ValueOpportunityMatchesDifference ==
    \A e \in Emitted :
        e.projection.value_opportunity =
            (Abs(e.projection.difference) >= IF e.stat_type = kills THEN 30 ELSE 20)

\* C3: every projection of generate_projection has a confidence in
\* [60.0, 95.0] (the confidence is in tenths).
C3_ConfidenceBounds ==
    \A e \in Emitted :
        e.projection.confidence >= 600 /\ e.projection.confidence <= 950

\* a projection 10 or more away from its baseline, where the unclamped
\* confidence is below 60, is emitted with confidence 60.0
C3_Witness ==
    /\ call.op = "generate_projection"
    /\ call.ret # None
    /\ Abs(call.ret.difference) >= 100
    /\ call.ret.confidence = 600

\* the props of a list that have at least one DFS line, in list order
PropsWithLines(player_props) ==
    LET HasLines(prop) == DfsLinesOf(prop) # <<>>
    IN  SelectSeq(player_props, HasLines)

\* C16: generate_projection returns None when dfs_lines is empty, and
\* generate_match_projections returns one projection for every prop that has
\* at least one DFS line, in the order of the input, and none for a prop
\* without DFS lines.
C16_EmptyLinesAreOmitted ==
    /\ (call.op = "generate_projection" /\ call.dfs_lines = <<>>) => call.ret = None
    /\ call.op = "generate_match_projections" =>
          LET kept == PropsWithLines(call.player_props)
          IN  /\ Len(call.ret) = Len(kept)
              /\ \A i \in 1..Len(kept) :
                    /\ call.ret[i].match_id = call.match_id
                    /\ call.ret[i].player_name = kept[i].player_name
                    /\ call.ret[i].team = kept[i].team
                    /\ call.ret[i].stat_type = kept[i].stat_type
                    /\ call.ret[i].dfs_lines = kept[i].dfs_lines

\* a call with three props, the middle one with an empty dfs_lines list,
\* that returned the projections of the first and the third
C16_Witness ==
    /\ call.op = "generate_match_projections"
    /\ Len(call.player_props) = 3
    /\ DfsLinesOf(call.player_props[2]) = <<>>
    /\ Len(call.ret) = 2
    /\ call.ret[1].stat_type = kills
    /\ call.ret[2].stat_type = headshots

(***************************************************************************)
(* Claims about the aggregator                                             *)
(***************************************************************************)
\* the raw props of the last pass, PrizePicks first
PassProps == pass.pp_props \o pass.ud_props

\* the places of a prop list where a player appears for the first time
FirstAppearances(props) ==
    {i \in 1..Len(props) :
        \A j \in 1..(i - 1) : props[j].player_name # props[i].player_name}

\* the aggregated players of the last pass, in order of first appearance
PassPlayers ==
    LET firsts == FirstAppearances(PassProps)
    IN  [k \in 1..Cardinality(firsts) |->
            PassProps[CHOOSE i \in firsts :
                         Cardinality({j \in firsts : j < i}) = k - 1].player_name]

\* no prop of the last pass carries a team
NoTeamInformation == \A i \in 1..Len(PassProps) : TeamOf(PassProps[i]) = <<>>

\* ceil(n / d)
CeilDiv(n, d) == (n + d - 1) \div d

Range(f) == {f[i] : i \in DOMAIN f}

\* C4: in a pass whose N aggregated players carry no team, the i-th match
\* of the pass receives the i-th chunk of max(10, N // 10) consecutive
\* players of the pass's player list, the chunks of different matches share
\* no player, and ceil(N / chunk size) matches exhaust the list.
C4_FallbackChunksPartitionPlayers ==
    (pass.n > 0 /\ NoTeamInformation) =>
        LET N == Len(PassPlayers)
            size == IF N \div 10 > 10 THEN N \div 10 ELSE 10
            M == Len(pass.found)
            Chunk(i) == [k \in 1..(IF i * size <= N THEN size
                                   ELSE IF (i - 1) * size < N THEN N - (i - 1) * size
                                   ELSE 0) |-> PassPlayers[(i - 1) * size + k]]
        IN  /\ \A i \in 1..M : pass.found[i].matched_players = Chunk(i)
            /\ \A i, j \in 1..M :
                  i # j => Range(pass.found[i].matched_players)
                           \cap Range(pass.found[j].matched_players) = {}
            /\ M >= CeilDiv(N, size) =>
                  Range(PassPlayers) =
                      UNION {Range(pass.found[i].matched_players) : i \in 1..M}

\* the stat types the last pass's props report for a player, on either platform
ReportedStats(player) ==
    {PassProps[i].stat_type :
        i \in {k \in 1..Len(PassProps) : PassProps[k].player_name = player}}

\* the last prop of a list for (player, stat) exists and its line is not 0.0
LastLineGiven(props, player, stat_type) ==
    LET at == {k \in 1..Len(props) :
                  props[k].player_name = player /\ props[k].stat_type = stat_type}
    IN  at # {} /\ props[CHOOSE k \in at : \A m \in at : m <= k].line # 0

\* the stat types of a player whose latest line is non-empty on a platform
StatsWithLine(player) ==
    {s \in ReportedStats(player) :
        \/ LastLineGiven(pass.pp_props, player, s)
        \/ LastLineGiven(pass.ud_props, player, s)}

\* the stat types among the raw props returned for a match, for a player
EmittedStats(found, player) ==
    {found.raw_props[i].stat_type :
        i \in {k \in 1..Len(found.raw_props) :
                  found.raw_props[k].player_name = player}}

\* the players among the raw props returned for a match
EmittedPlayers(found) ==
    {found.raw_props[i].player_name : i \in 1..Len(found.raw_props)}

\* C5 as stated: the stat types emitted for a rostered player are exactly
\* the stat types reported for that player on either platform, and no player
\* whose lines are all empty is emitted.
C5_EmittedStatsAreReportedUnion ==
    \A m \in 1..Len(pass.found) :
        /\ \A player \in Range(pass.found[m].matched_players) :
              EmittedStats(pass.found[m], player) = ReportedStats(player)
        /\ \A player \in EmittedPlayers(pass.found[m]) : StatsWithLine(player) # {}

\* C5 amended: the stat types emitted for a rostered player are exactly the
\* reported stat types whose latest line is non-empty (neither None nor 0.0)
\* on PrizePicks or on Underdog, and no player whose lines are all empty is
\* emitted.
C5_EmittedStatsHaveLines ==
    \A m \in 1..Len(pass.found) :
        /\ \A player \in Range(pass.found[m].matched_players) :
              EmittedStats(pass.found[m], player) = StatsWithLine(player)
        /\ \A player \in EmittedPlayers(pass.found[m]) : StatsWithLine(player) # {}

\* a rostered player with stats on both platforms, one of them emitted with
\* both lines and one reported with an empty line only
C5_Witness ==
    \E m \in 1..Len(pass.found) :
        \E player \in Range(pass.found[m].matched_players) :
            /\ StatsWithLine(player) # {}
            /\ StatsWithLine(player) # ReportedStats(player)
            /\ \E i \in 1..Len(pass.found[m].raw_props) :
                  /\ pass.found[m].raw_props[i].player_name = player
                  /\ Len(pass.found[m].raw_props[i].dfs_lines) = 2

(***************************************************************************)
(* Claims about the tracker's accessors and pruning                        *)
(***************************************************************************)
\* the last two entries of a stored history differ by at least the key's threshold
SignificantPair(pair) ==
    LET history == line_history[pair[1]][pair[2]]
        threshold == IF Contains(kill, Lower(pair[2])) THEN 150 ELSE 100
    IN  /\ Len(history) >= 2
        /\ Abs(history[Len(history)].line - history[Len(history) - 1].line) >= threshold

\* an entry returned by an accessor is the movement of this stored pair
EntryOfPair(entry, pair) ==
    /\ entry.player_name = pair[1]
    /\ history_key(entry.stat_type, entry.platform) = pair[2]

\* C11: get_significant_movements returns one movement for every tracked key
\* whose latest change reaches the threshold, none for any other key, and
\* the list is in non-increasing order of absolute movement.
C11_SignificantMovements ==
    call.op = "get_significant_movements" =>
        /\ \A pair \in HistoryPairs :
              SignificantPair(pair) =>
                  Cardinality({i \in 1..Len(call.ret) : EntryOfPair(call.ret[i], pair)}) = 1
        /\ \A i \in 1..Len(call.ret) :
              /\ call.ret[i].is_significant
              /\ call.ret[i].movement_direction # "new"
              /\ \E pair \in HistoryPairs :
                    SignificantPair(pair) /\ EntryOfPair(call.ret[i], pair)
        /\ \A i, j \in 1..Len(call.ret) :
              i < j => Abs(call.ret[i].movement) >= Abs(call.ret[j].movement)

\* the (player, history key) pairs held before the last clear_old_history
PairsBefore ==
    UNION {{<<p, k>> : k \in DOMAIN call.before[p]} : p \in DOMAIN call.before}

\* the entries of a history before the call whose timestamp satisfies Keep
KeptWhere(pair, Keep(_)) == SelectSeq(call.before[pair[1]][pair[2]], Keep)

\* no player without keys and no key without entries is held
NoEmptyHistory ==
    \A p \in DOMAIN line_history :
        /\ DOMAIN line_history[p] # {}
        /\ \A k \in DOMAIN line_history[p] : line_history[p][k] # <<>>

\* every recorded triple whose key is no longer held reads as None
PrunedKeysReadNone ==
    \A t \in recorded_keys :
        HistoryOf(line_history, t[1], history_key(t[2], t[3])) = <<>>
            => get_line_movement(t[1], t[2], t[3]) = {None}

LastLine(props, player, stat_type) ==
    LET at == {k \in 1..Len(props) :
                  props[k].player_name = player /\ props[k].stat_type = stat_type}
    IN  props[CHOOSE k \in at : \A m \in at : m <= k].line

\* the DFS lines a record should hold: one per platform whose latest line
\* for the player and stat is non-empty, PrizePicks first
SuppliedLines(player, stat_type) ==
    (IF LastLineGiven(pass.pp_props, player, stat_type)
     THEN <<[platform |-> prizepicks, line |-> LastLine(pass.pp_props, player, stat_type)]>>
     ELSE <<>>)
    \o (IF LastLineGiven(pass.ud_props, player, stat_type)
        THEN <<[platform |-> underdog, line |-> LastLine(pass.ud_props, player, stat_type)]>>
        ELSE <<>>)

\* C13: every record _find_matching_props emits holds at least one DFS
\* line, and exactly one per platform that supplied a non-empty line for
\* its player and stat, with that line; a pair without any line is not emitted.
C13_EmittedRecordsCarryLines ==
    \A m \in 1..Len(pass.found) : \A i \in 1..Len(pass.found[m].raw_props) :
        LET rec == pass.found[m].raw_props[i]
        IN  /\ Len(rec.dfs_lines) >= 1
            /\ [k \in 1..Len(rec.dfs_lines) |->
                   [platform |-> rec.dfs_lines[k].platform,
                    line |-> rec.dfs_lines[k].line]]
               = SuppliedLines(rec.player_name, rec.stat_type)
            /\ \A k \in 1..Len(rec.dfs_lines) : rec.dfs_lines[k].stat_type = rec.stat_type

\* one match whose records include one with both platforms' lines and one
\* with the Underdog line only, a rostered player's stat without line being left out
C13_Witness ==
    \E m \in 1..Len(pass.found) :
        /\ \E i \in 1..Len(pass.found[m].raw_props) :
              Len(pass.found[m].raw_props[i].dfs_lines) = 2
        /\ \E i \in 1..Len(pass.found[m].raw_props) :
              /\ Len(pass.found[m].raw_props[i].dfs_lines) = 1
              /\ pass.found[m].raw_props[i].dfs_lines[1].platform = underdog
        /\ \E player \in Range(pass.found[m].matched_players) :
              \E stat_type \in ReportedStats(player) :
                  /\ SuppliedLines(player, stat_type) = <<>>
                  /\ stat_type \notin EmittedStats(pass.found[m], player)

\* C14: in a pass where no prop carries a team and at least one player was
\* aggregated, every match handed to _find_matching_props receives a
\* non-empty roster, however many matches the pass has.
C14_EveryMatchReceivesRoster ==
    (pass.n > 0 /\ NoTeamInformation /\ Len(PassPlayers) > 0) =>
        \A m \in 1..Len(pass.found) : Len(pass.found[m].matched_players) > 0

\* the team the props of the last pass report for a player (empty if none)
ReportedTeam(player) ==
    LET player_props == GroupProps(pass.pp_props, pass.ud_props)
    IN  player_props[PlayerIndex(player_props, player)].team

\* a reported team that cannot be matched to either team of a match: no
\* team at all, or a name in no containment relation with team1 or team2
Unmatchable(team, match) ==
    \/ team = <<>>
    \/ /\ ~EitherContains(normalize_team_name(team), normalize_team_name(match.team1))
       /\ ~EitherContains(normalize_team_name(team), normalize_team_name(match.team2))

\* C15: a rostered player whose reported team cannot be matched to team1 or
\* team2 (a player without any team included) is given team1 when their
\* roster position is in the first half of the roster and team2 otherwise.
C15_UnmatchedSplitByPosition ==
    \A m \in 1..Len(pass.found) : \A i \in 1..Len(pass.found[m].raw_props) :
        LET rec == pass.found[m].raw_props[i]
            match == pass.hltv_matches[m]
            roster == pass.found[m].matched_players
        IN  Unmatchable(ReportedTeam(rec.player_name), match) =>
                rec.team = IF 2 * IndexOf(roster, rec.player_name) < Len(roster)
                           THEN match.team1 ELSE match.team2

\* the part of C15 about reported teams that are not empty
C15_NamedUnmatchedSplitByPosition ==
    \A m \in 1..Len(pass.found) : \A i \in 1..Len(pass.found[m].raw_props) :
        LET rec == pass.found[m].raw_props[i]
            match == pass.hltv_matches[m]
            roster == pass.found[m].matched_players
        IN  (/\ ReportedTeam(rec.player_name) # <<>>
             /\ Unmatchable(ReportedTeam(rec.player_name), match)) =>
                rec.team = IF 2 * IndexOf(roster, rec.player_name) < Len(roster)
                           THEN match.team1 ELSE match.team2

(***************************************************************************)
(* Claims about the aggregation pass                                       *)
(***************************************************************************)
\* the call was a pass of fetch_all_data, alone or inside fetch_real_data
FetchPass == call.op \in {"fetch_all_data", "fetch_real_data"}

\* the projections fetch_all_data returned in the last pass
PassProjections ==
    IF call.op = "fetch_all_data" THEN call.ret[2]
    ELSE IF call.op = "fetch_real_data" THEN call.computed[2]
    ELSE <<>>

\* projected_value minus the mean of the lines, to one decimal place (tenths)
DifferenceOf(projection) ==
    RoundTenths(Frac(10 * Len(projection.dfs_lines) * projection.projected_value
                     - SumLines(projection.dfs_lines),
                     100 * Len(projection.dfs_lines)))

\* C17: every projection an aggregation pass returns, on every branch that
\* produces projections, has difference = projected_value - mean of the
\* lines of its dfs_lines, to one decimal place.
C17_DifferenceMatchesLines ==
    \A i \in 1..Len(PassProjections) :
        PassProjections[i].difference \in DifferenceOf(PassProjections[i])

\* the part of C17 on the branch that combines matches with fetched props
C17_DifferenceMatchesLinesOnRealProps ==
    (FetchPass /\ call.branch = "combine") =>
        \A i \in 1..Len(PassProjections) :
            PassProjections[i].difference \in DifferenceOf(PassProjections[i])

\* the list a source contributed to the last pass
Contribution(source) == Fetched(call.fetched[source])

\* a prop of the given list with this player, stat and line
HasProp(props, player, stat_type, line) ==
    \E k \in 1..Len(props) :
        /\ props[k].player_name = player
        /\ props[k].stat_type = stat_type
        /\ props[k].line = line

\* C18: in fetch_all_data a fetch that raises leaves its source with an
\* empty list and a recorded error (success false, the exception's text); the
\* other sources are fetched all the same, their status is that of their own
\* result and their lists are the ones the pass works on: the matches
\* returned are the fetched matches, in order, and every DFS line of a
\* returned projection on the combining branch is a line of a prop of the
\* platform's fetched list; the call returns a pair, it never raises.
C18_FetchFailureIsIsolated ==
    call.op = "fetch_all_data" =>
        /\ Len(call.ret) = 2
        /\ \A source \in Sources :
              LET result == call.fetched[source]
              IN  /\ scraping_status[source].last_attempt = {clock - 1}
                  /\ IF result.raises
                     THEN /\ scraping_status[source].success = FALSE
                          /\ scraping_status[source].error = {result.error}
                     ELSE /\ scraping_status[source].success = (result.value # <<>>)
                          /\ scraping_status[source].error =
                                IF result.value # <<>> THEN {} ELSE {NoDataError[source]}
        /\ call.branch = BranchOf(Contribution("hltv"), Contribution("prizepicks"),
                                  Contribution("underdog"))
        /\ call.branch # "empty" =>
              /\ Len(call.ret[1]) = Len(Contribution("hltv"))
              /\ \A i \in 1..Len(call.ret[1]) :
                    /\ call.ret[1][i].team1 = Contribution("hltv")[i].team1
                    /\ call.ret[1][i].team2 = Contribution("hltv")[i].team2
        /\ call.branch = "combine" =>
              \A i \in 1..Len(call.ret[2]) :
                 \A k \in 1..Len(call.ret[2][i].dfs_lines) :
                    LET projection == call.ret[2][i]
                        dfs_line == projection.dfs_lines[k]
                    IN  HasProp(Contribution(IF dfs_line.platform = prizepicks
                                             THEN "prizepicks" ELSE "underdog"),
                                projection.player_name, projection.stat_type, dfs_line.line)

\* a pass whose PrizePicks fetch raised while the match feed and Underdog
\* returned data: the error is recorded, the other two are marked successful
\* and the pass returns matches and projections built on Underdog lines
C18_Witness ==
    /\ call.op = "fetch_all_data"
    /\ call.fetched.prizepicks.raises
    /\ ~call.fetched.hltv.raises /\ ~call.fetched.underdog.raises
    /\ scraping_status.prizepicks.error = {"403"}
    /\ scraping_status.hltv.success /\ scraping_status.underdog.success
    /\ call.ret[1] # <<>>
    /\ call.ret[2] # <<>>
    /\ \A i \in 1..Len(call.ret[2]) :
          /\ Len(call.ret[2][i].dfs_lines) = 1
          /\ call.ret[2][i].dfs_lines[1].platform = underdog

\* a source is unavailable: its fetch returned an empty list or raised
Unavailable(source) == Contribution(source) = <<>>

\* C19: when the match feed and both prop feeds are unavailable (each
\* returns an empty list or raises), fetch_all_data returns an empty list of
\* matches and an empty list of projections.
C19_NothingFetchedNothingReturned ==
    (call.op = "fetch_all_data" /\ \A source \in Sources : Unavailable(source)) =>
        call.ret = << <<>>, <<>> >>

\* a pass in which the match feed raised, PrizePicks returned nothing and
\* Underdog raised, and that returned two empty lists
C19_Witness ==
    /\ call.op = "fetch_all_data"
    /\ call.fetched.hltv.raises
    /\ call.fetched.prizepicks = Returned(<<>>)
    /\ call.fetched.underdog.raises
    /\ call.ret = << <<>>, <<>> >>

(***************************************************************************)
(* Claims about the server's pass                                          *)
(***************************************************************************)
\* the last pass computed matches and projections, and its store write failed
WriteFailedAfterPass ==
    /\ call.op = "fetch_real_data"
    /\ call.computed[1] # <<>>
    /\ call.computed[2] # <<>>
    /\ call.fails[1] # 0

\* C20: if the store write fails after a pass computed non-empty matches
\* and projections, the failure reaches the caller of the pass and the
\* snapshot holds exactly the matches and projections the pass computed.
C20_SnapshotSurvivesWriteFailure ==
    WriteFailedAfterPass =>
        /\ call.raised
        /\ data_cache.matches = call.computed[1]
        /\ data_cache.projections = call.computed[2]

\* the part of C20 that does hold: when the store write succeeds the
\* snapshot and the store hold what the pass computed
C20_SnapshotAfterWrite ==
    (/\ call.op = "fetch_real_data"
     /\ call.computed[1] # <<>> /\ call.computed[2] # <<>>
     /\ call.fails[1] = 0) =>
        /\ ~call.raised
        /\ data_cache.matches = call.computed[1]
        /\ data_cache.projections = call.computed[2]
        /\ db = [matches |-> call.computed[1], projections |-> call.computed[2]]

(***************************************************************************)
(* Claims about the tracker's place in the pass                            *)
(***************************************************************************)
\* the props a platform's feed contributed to the last pass, with a
\* non-empty player, stat and line
FetchedProps(source) ==
    LET props == Contribution(source)
    IN  {props[k] : k \in {j \in 1..Len(props) : Recordable(props[j])}}

\* the tracker history of a key ends with the line
HistoryEndsWith(player_name, stat_type, platform, line) ==
    LET history == HistoryOf(line_history, player_name, history_key(stat_type, platform))
    IN  history # <<>> /\ history[Len(history)].line = line

\* C21: after an aggregation pass that fetched a prop (player, stat, line,
\* platform) the tracker history for that key ends with that line (the last
\* line of the key in the feed), and the line-movement endpoints read the
\* tracker: they answer without error.
C21_PassRecordsFetchedProps ==
    /\ call.op = "fetch_all_data" =>
          /\ \A prop \in FetchedProps("prizepicks") :
                HistoryEndsWith(prop.player_name, prop.stat_type, prizepicks,
                    LastLine(Contribution("prizepicks"), prop.player_name, prop.stat_type))
          /\ \A prop \in FetchedProps("underdog") :
                HistoryEndsWith(prop.player_name, prop.stat_type, underdog,
                    LastLine(Contribution("underdog"), prop.player_name, prop.stat_type))
    /\ call.op \in {"get_line_movements", "get_significant_line_movements"} =>
          ~call.raised

(***************************************************************************)
(* Claims about concurrent calls                                           *)
(***************************************************************************)
\* the write and the read of the round have both returned
RoundOver == tasks.rounds > 0 /\ ThreadsIdle

\* what get_line_movement can return for a key on a given line_history
MovementOn(lh, player_name, stat_type, platform) ==
    get_line_movement_of(HistoryOf(lh, player_name, history_key(stat_type, platform)),
                         stat_type)

\* C22: a tracker read running concurrently with record_lines or
\* clear_old_history completes without error, and the movement it reports
\* for a key is one computed from the key's history as it was before the
\* write or as it is after it.
C22_ConcurrentReadIsConsistent ==
    RoundOver =>
        /\ tasks.reader.error = ""
        /\ tasks.reader.op = "get_line_movement" =>
              LET q == tasks.reader.query
              IN  tasks.reader.ret \in MovementOn(tasks.writer.before, q[1], q[2], q[3])
                                       \cup MovementOn(line_history, q[1], q[2], q[3])
        /\ tasks.reader.op = "get_all_movements" =>
              \A k \in DOMAIN tasks.reader.ret :
                 LET e == tasks.reader.ret[k]
                     m == [f \in DOMAIN e \ {"player_name", "stat_type", "platform"} |-> e[f]]
                 IN  m \in MovementOn(tasks.writer.before, e.player_name, e.stat_type,
                                      e.platform)
                           \cup MovementOn(line_history, e.player_name, e.stat_type,
                                           e.platform)

\* the two ways the claim fails: the read raised, or it returned a movement
\* of no history the key ever had
C22_ReadRaised == RoundOver /\ tasks.reader.error # ""

C22_TornRead ==
    /\ RoundOver
    /\ tasks.reader.op = "get_line_movement"
    /\ tasks.reader.error = ""
    /\ LET q == tasks.reader.query
       IN  tasks.reader.ret \notin MovementOn(tasks.writer.before, q[1], q[2], q[3])
                                   \cup MovementOn(line_history, q[1], q[2], q[3])

\* both refresh requests have returned
RefreshesOver == \A t \in Requests : tasks.refresh[t].pc = "done"

\* the snapshot and the store hold the data of the pass of request t
HoldsPassOf(t) ==
    /\ data_cache.matches = tasks.refresh[t].matches
    /\ data_cache.projections = tasks.refresh[t].projections
    /\ db.matches = tasks.refresh[t].matches
    /\ db.projections = tasks.refresh[t].projections

\* C23: two refreshes of which the second is triggered while the first is
\* running never interleave; when both have finished, the snapshot and the
\* persisted matches and projections are those of exactly one complete pass.
C23_RefreshesAreSerialized ==
    /\ \E t \in Requests : tasks.refresh[t].pc \in {"idle", "done"}
    /\ RefreshesOver => \E t \in Requests : HoldsPassOf(t)

\* both requests returned and the snapshot and the store hold no single pass
C23_MixedPasses == RefreshesOver /\ \A t \in Requests : ~HoldsPassOf(t)

\* C24: when real-data augmentation is enabled and the injected stats
\* provider returns a form value for the player, generate_projection uses
\* that value as the form factor; the synthetic form is used only when the
\* provider is disabled or has no data.
C24_ProvidedFormIsUsed ==
    (call.op = "generate_projection" /\ call.ret # None) =>
        LET provided == fetch_player_recent_form(StatsFetcher, call.player_name)
        IN  provided # {} => call.ret.form_factor \in provided

(***************************************************************************)
(* Claims about the match-detail lookup                                    *)
(***************************************************************************)
\* the positions of the snapshot's projections that belong to a match
ProjectionsAt(match_id) ==
    {i \in DOMAIN CachedProjections(data_cache) :
        CachedProjections(data_cache)[i].match_id = match_id}

\* C25: the match-detail lookup answers 404 exactly when the snapshot holds
\* no match with the requested id; otherwise it returns that match together
\* with exactly the projections of the snapshot whose match_id is the id.
C25_DetailOfSnapshotMatch ==
    call.op = "get_match_detail" =>
        LET held == {i \in DOMAIN data_cache.matches :
                        data_cache.matches[i].id = call.match_id}
        IN  /\ call.status = 404 <=> held = {}
            /\ call.status = 200 =>
                  /\ \E i \in held : call.ret.match = data_cache.matches[i]
                  /\ Len(call.ret.projections) = Cardinality(ProjectionsAt(call.match_id))
                  /\ \A i \in ProjectionsAt(call.match_id) :
                        \E k \in DOMAIN call.ret.projections :
                           call.ret.projections[k] = CachedProjections(data_cache)[i]
                  /\ \A k \in DOMAIN call.ret.projections :
                        call.ret.projections[k].match_id = call.match_id

\* a lookup of a match that is not the first of a snapshot holding
\* projections of several matches
C25_Witness ==
    /\ call.op = "get_match_detail"
    /\ call.status = 200
    /\ call.ret.projections # <<>>
    /\ call.ret.match # Head(data_cache.matches)
    /\ ProjectionsAt(Head(data_cache.matches).id) # {}

(***************************************************************************)
(* Claims about the fallback counter and the team-matched roster           *)
(***************************************************************************)
\* self._match_counter, 0 while the fallback state does not exist
CounterOf(a) == IF HasFallbackState(a) THEN a._match_counter ELSE 0

\* the number of matches of a pass that took the fallback branch
Fallbacks(found) == Cardinality({i \in DOMAIN found : found[i].fallback})

\* C26 as stated: within a single aggregation pass over M matches the
\* fallback counter advances exactly once per match processed by
\* _find_matching_props, so it has advanced by M when the pass ends.
C26_CounterAdvancesPerMatch ==
    [][pass'.n = pass.n + 1 =>
          CounterOf(agg') - CounterOf(agg) = Len(pass'.hltv_matches)]_vars

\* C26, amended: within a single aggregation pass the fallback counter
\* advances exactly once per match for which no player matched by team, so
\* it has advanced by the number of such matches when the pass ends.
C26_CounterAdvancesPerFallback ==
    [][pass'.n = pass.n + 1 =>
          CounterOf(agg') - CounterOf(agg) = Fallbacks(pass'.found)]_vars

\* a pass with a match that fell back and a match rostered by team
C26_Witness ==
    /\ pass.n > 0
    /\ \E i, j \in DOMAIN pass.found : pass.found[i].fallback /\ ~pass.found[j].fallback
    /\ CounterOf(agg) > 0

\* the reported team matches the team of a match: one normalized name is a
\* substring of the other
TeamsMatch(reported, team) ==
    EitherContains(normalize_team_name(reported), normalize_team_name(team))

\* the positions of the aggregated players of the pass whose non-empty
\* reported team matches a team of the match
MatchingPlayers(match) ==
    LET player_props == GroupProps(pass.pp_props, pass.ud_props)
    IN  {k \in DOMAIN player_props :
            /\ player_props[k].team # <<>>
            /\ TeamsMatch(player_props[k].team, match.team1)
               \/ TeamsMatch(player_props[k].team, match.team2)}

\* C28: when at least one aggregated player has a non-empty reported team
\* matching team1 or team2 of the match, the roster of the match is exactly
\* the players with such a team, each is assigned a match team that their
\* reported team matches, and the fallback branch is not taken.
C28_RosterByTeam ==
    \A i \in DOMAIN pass.found :
        LET match == pass.hltv_matches[i]
            player_props == GroupProps(pass.pp_props, pass.ud_props)
            found == pass.found[i]
        IN  MatchingPlayers(match) # {} =>
               /\ ~found.fallback
               /\ Len(found.matched_players) = Cardinality(MatchingPlayers(match))
               /\ \A k \in MatchingPlayers(match) :
                     \E j \in DOMAIN found.matched_players :
                        found.matched_players[j] = player_props[k].player
               /\ \A j \in DOMAIN found.raw_props :
                     \E k \in MatchingPlayers(match) :
                        /\ player_props[k].player = found.raw_props[j].player_name
                        /\ \/ /\ found.raw_props[j].team = match.team1
                              /\ TeamsMatch(player_props[k].team, match.team1)
                           \/ /\ found.raw_props[j].team = match.team2
                              /\ TeamsMatch(player_props[k].team, match.team2)

\* a match rostered by team with players of both teams, while another
\* aggregated player matches neither team
C28_Witness ==
    \E i \in DOMAIN pass.found :
        /\ ~pass.found[i].fallback
        /\ \E j, k \in DOMAIN pass.found[i].raw_props :
              /\ pass.found[i].raw_props[j].team = pass.hltv_matches[i].team1
              /\ pass.found[i].raw_props[k].team = pass.hltv_matches[i].team2
        /\ Cardinality(MatchingPlayers(pass.hltv_matches[i]))
              < Len(GroupProps(pass.pp_props, pass.ud_props))

\* the player-to-match assignment of a pass: the roster of each match
Assignment(found) == [i \in DOMAIN found |-> found[i].matched_players]

\* C29: two aggregation passes run one after the other on the same
\* aggregator, with identical match lists and identical prop lists that carry
\* no team information, produce the same player-to-match assignment.
C29_RepeatedPassRepeatsAssignment ==
    [][(/\ pass.n > 0
        /\ pass'.n = pass.n + 1
        /\ pass'.hltv_matches = pass.hltv_matches
        /\ pass'.pp_props = pass.pp_props
        /\ pass'.ud_props = pass.ud_props
        /\ NoTeamInformation)
       => Assignment(pass'.found) = Assignment(pass.found)]_vars

(***************************************************************************)
(* Claims about the effect of record_lines and the current-lines index     *)
(***************************************************************************)
\* the history the tracker holds for a (player, stat, platform) key
KeyHistory(lh, q) == HistoryOf(lh, q[1], history_key(q[2], q[3]))

\* the key of a prop
KeyOfProp(prop) == <<prop.player_name, prop.stat_type, PlatformOf(prop)>>

\* the lines a call records for a key, in the order of its props
RECURSIVE LinesFor(_, _)
LinesFor(props, q) ==
    IF props = <<>> THEN <<>>
    ELSE (IF Recordable(Head(props)) /\ KeyOfProp(Head(props)) = q
          THEN <<Head(props).line>> ELSE <<>>) \o LinesFor(Tail(props), q)

\* the keys a call records
KeysOf(props) ==
    {KeyOfProp(props[i]) : i \in {j \in DOMAIN props : Recordable(props[j])}}

\* C27: record_lines appends one entry (line, platform) per prop with a
\* non-empty player, stat and line to the history of that prop's key and sets
\* the key's current-lines entry to the same line; a prop lacking one of the
\* three changes nothing; the history of no other key changes.
C27_RecordLinesFrame ==
    [][call'.op = "record_lines" =>
          LET props == call'.props
          IN  /\ \A q \in KeysOf(props) :
                    /\ LET old == KeyHistory(line_history, q)
                           new == KeyHistory(line_history', q)
                           lines == LinesFor(props, q)
                           kept == Len(new) - Len(lines)
                       IN  /\ kept >= 0
                           /\ \A i \in 1..Len(lines) :
                                 /\ new[kept + i].line = lines[i]
                                 /\ new[kept + i].platform = q[3]
                           /\ SubSeq(new, 1, kept)
                                 = SubSeq(old, Len(old) - kept + 1, Len(old))
                           /\ current_lines'[current_key(q[1], q[2], q[3])].line
                                 = lines[Len(lines)]
              /\ \A q \in (Queries \cup recorded_keys) \ KeysOf(props) :
                    KeyHistory(line_history', q) = KeyHistory(line_history, q)
              /\ KeysOf(props) = {} =>
                    line_history' = line_history /\ current_lines' = current_lines]_vars

\* C30: after any sequence of record_lines and clear_old_history calls,
\* current_lines holds an entry for a (player, stat, platform) key exactly
\* when the key has a non-empty history, and the line of the entry is the
\* line of the latest history entry.
C30_CurrentLinesMirrorHistory ==
    \A q \in recorded_keys \cup MovementQueries :
        LET history == KeyHistory(line_history, q)
            key == current_key(q[1], q[2], q[3])
        IN  /\ key \in DOMAIN current_lines <=> history # <<>>
            /\ history # <<>> => current_lines[key].line = history[Len(history)].line

\* a key whose history was pruned away while current_lines still holds it
C30_IndexedButPruned ==
    \E q \in recorded_keys :
        /\ call.op = "clear_old_history"
        /\ KeyHistory(line_history, q) = <<>>
        /\ current_key(q[1], q[2], q[3]) \in DOMAIN current_lines

====
